---- MODULE Spec2Model ----
(***************************************************************************)
(* lawn-lapse: slot generation (scheduling.js), the due-capture evaluator, *)
(* the historical backfill walker (fetchMissingSnapshots), the per-day     *)
(* video cache (generateDailyVideo), the multi-camera loop (main) and the  *)
(* video assembly of one camera (analyzeSnapshotDistribution,              *)
(* generateDailyVideo, concatenateDailyVideos, generateTimelapse) of       *)
(* capture-and-timelapse.js.                                               *)
(*                                                                         *)
(* Instants are local wall-clock minutes: day * MinutesPerDay + minute of  *)
(* the day.  Days are numbered relative to the day of the run (day 0), so  *)
(* the day `dayOffset` days back is day -dayOffset.                         *)
(***************************************************************************)
EXTENDS Integers, Sequences, FiniteSets, TLC

VARIABLES
    \* ---- backfill walker: fetchMissingSnapshots(config, camera)
    config,               \* config.schedule, config.location, config.history
    env,                  \* the world of one pass: now, tzOffset, sun, archive
    pc,                   \* position of the walker
    dayOffset,
    validSlots,           \* the non-future slots of the day being processed
    slotIdx,              \* index into validSlots of the next slot
    dayHadAnyData,
    capturedCount,
    skippedCount,
    failedCount,
    consecutiveNoData,
    consecutiveNotFound,
    consecutiveFailures,
    attemptCount,
    existingSnapshots,    \* file names read from outputDir when the pass starts
    capturedTimeSlots,
    disk,                 \* the .jpg files of outputDir
    daysScanned,          \* days whose slot loop was entered
    lastOutcome,          \* what happened to the slot processed last
    stopReason,           \* which exit of the day loop was taken
    \* ---- due-capture evaluator and its polling caller
    now,
    lastCapture,
    todaySchedule,
    due,                  \* result of the last isCaptureDue call
    dueSlot,              \* the slot that call returned on, if any
    fireCount,            \* per slot: number of calls that returned true on it
    pollGap,              \* minutes between polls (0: any positive gap)
    pollPc,
    \* ---- generateDailyVideo cache
    clock,
    frameMtime,           \* mtime of each snapshot of the date
    videoMtime,           \* mtime of <date>.mp4, None when absent
    videoResult,          \* what the last generateDailyVideo call did
    videoContent,         \* what <date>.mp4 holds: the frames encoded into it
                          \* and whether the encoder finished, None when absent
    \* ---- main: the camera loop
    cameras,
    hasPassword,
    camIdx,
    mainPc,
    results,
    attempted,            \* cameras whose processing was started
    failedCameras,        \* cameras whose processing failed
    exitCode,
    \* ---- main: the video assembly of one camera
    store,                \* snapshotDir as fs.readdir lists it
    asmPc,
    dailyVideos,
    timeGroups,
    dvIdx,                \* index into dailyVideos of the next date
    tgIdx,                \* index into timeGroups of the next group
    dailyArtifacts,       \* <date>.mp4 files encoded, with their profile
    concatList,           \* the dates of concat-list.txt, None before it is written
    concatName,           \* <<firstDate, lastDate>> of the full timelapse's name
    timelapses,           \* time-based timelapses encoded
    encoderRuns,          \* the ffmpeg runs of the assembly and how each ended
    \* ---- scheduling.js called on its own
    call,                 \* the arguments and the clock of one call
    ret,                  \* what the call returned or threw
    \* ---- main and fetchMissingSnapshots at the grain of their awaits
    nCams,                \* cameras.length
    seqPc,
    seqCam,               \* the camera of the current iteration of main's loop
    busy,                 \* cameras whose iteration has started and not ended
    issued,               \* export requests issued for the current camera
    settled,              \* attempts completed, counters updated
    outstanding           \* export requests issued and not yet answered

walkerVars == <<config, env, pc, dayOffset, validSlots, slotIdx, dayHadAnyData,
                capturedCount, skippedCount, failedCount, consecutiveNoData,
                consecutiveNotFound, consecutiveFailures, attemptCount,
                existingSnapshots, capturedTimeSlots, disk, daysScanned,
                lastOutcome, stopReason>>
dueVars == <<now, lastCapture, todaySchedule, due, dueSlot, fireCount, pollGap, pollPc>>
videoVars == <<clock, frameMtime, videoMtime, videoResult, videoContent>>
mainVars == <<cameras, hasPassword, camIdx, mainPc, results, attempted,
              failedCameras, exitCode>>
asmVars == <<store, asmPc, dailyVideos, timeGroups, dvIdx, tgIdx, dailyArtifacts,
             concatList, concatName, timelapses, encoderRuns>>
slotVars == <<call, ret>>
seqVars == <<nCams, seqPc, seqCam, busy, issued, settled, outstanding>>
vars == <<walkerVars, dueVars, videoVars, mainVars, asmVars, slotVars, seqVars>>

\* An optional value (null, undefined, absent) is a sequence: <<>> when it is
\* absent, <<v>> when it is v.
None == <<>>
Some(v) == <<v>>

MinutesPerDay == 24 * 60

HM(h, m) == h * 60 + m

(***************************************************************************)
(* scheduling.js                                                           *)
(***************************************************************************)

\* Array.prototype.sort((a, b) => a - b): ascending, stable, duplicates kept.
RECURSIVE InsertSorted(_, _)
InsertSorted(s, x) ==
    IF s = <<>> THEN <<x>>
    ELSE IF x < Head(s) THEN <<x>> \o s
    ELSE <<Head(s)>> \o InsertSorted(Tail(s), x)

RECURSIVE SortAscending(_)
SortAscending(s) ==
    IF s = <<>> THEN <<>>
    ELSE InsertSorted(SortAscending(SubSeq(s, 1, Len(s) - 1)), s[Len(s)])

\* One slot per configured "HH:MM" on `day`, seconds = 0, sorted ascending.
generateFixedTimeSlots(day, times) ==
    SortAscending([i \in 1..Len(times) |->
                      day * MinutesPerDay + HM(times[i][1], times[i][2])])

\* The while loop of generateIntervalSlots: push, then setMinutes(+interval).
RECURSIVE IntervalLoop(_, _, _)
IntervalLoop(currentTime, endTime, step) ==
    IF currentTime <= endTime
    THEN <<currentTime>> \o IntervalLoop(currentTime + step, endTime, step)
    ELSE <<>>

\* setMinutes(getMinutes() + 60 / shotsPerHour): MakeTime truncates the minute
\* argument to an integer, so a fractional interval advances by its floor.
IntervalStep(shotsPerHour) == 60 \div shotsPerHour

generateIntervalSlots(day, interval, window) ==
    LET shotsPerHour == IF interval.shotsPerHour = 0 THEN 1 ELSE interval.shotsPerHour
        start == IF window.startHour = None THEN HM(0, 0)
                 ELSE HM(window.startHour[1], window.startHour[2])
        end == IF window.endHour = None THEN HM(23, 59)
               ELSE HM(window.endHour[1], window.endHour[2])
    IN  IntervalLoop(day * MinutesPerDay + start, day * MinutesPerDay + end,
                     IntervalStep(shotsPerHour))

\* The interior loop of generateSunriseSlots: strictly before the end time.
RECURSIVE SunIntervalLoop(_, _, _)
SunIntervalLoop(currentTime, endTime, step) ==
    IF currentTime < endTime
    THEN <<currentTime>> \o SunIntervalLoop(currentTime + step, endTime, step)
    ELSE <<>>

generateSunriseSlots_Unsorted(day, schedule, sun) ==
    (IF schedule.captureSunrise
     THEN <<day * MinutesPerDay + sun.sunrise + schedule.sunriseOffset>> ELSE <<>>)
    \o (IF schedule.captureSunset
        THEN <<day * MinutesPerDay + sun.sunset + schedule.sunsetOffset>> ELSE <<>>)
    \o (IF schedule.interval.shotsPerHour > 0
        THEN SunIntervalLoop(
                 day * MinutesPerDay + sun.sunrise + schedule.sunriseOffset
                     + IntervalStep(schedule.interval.shotsPerHour),
                 day * MinutesPerDay + sun.sunset + schedule.sunsetOffset,
                 IntervalStep(schedule.interval.shotsPerHour))
        ELSE <<>>)
\* `sun` stands for SunCalc.getTimes(date, lat, lon): minutes of the day of
\* sunrise and sunset.
generateSunriseSlots(day, schedule, sun) ==
    LET sunrise == day * MinutesPerDay + sun.sunrise
        sunset == day * MinutesPerDay + sun.sunset
        riseSlots == IF schedule.captureSunrise
                     THEN <<sunrise + schedule.sunriseOffset>> ELSE <<>>
        setSlots == IF schedule.captureSunset
                    THEN <<sunset + schedule.sunsetOffset>> ELSE <<>>
        between == IF schedule.interval.shotsPerHour > 0
                   THEN SunIntervalLoop(
                            sunrise + schedule.sunriseOffset
                                + IntervalStep(schedule.interval.shotsPerHour),
                            sunset + schedule.sunsetOffset,
                            IntervalStep(schedule.interval.shotsPerHour))
                   ELSE <<>>
    IN  SortAscending(riseSlots \o setSlots \o between)

LocationMissing_AbsentOnly(location) == location = None
\* !location || !location.lat || !location.lon: a coordinate is None when it
\* is null or absent, and 0 is falsy in JavaScript.
LocationMissing(location) ==
    IF location = None THEN TRUE
    ELSE IF location[1].lat = None THEN TRUE
    ELSE IF location[1].lat[1] = 0 THEN TRUE
    ELSE IF location[1].lon = None THEN TRUE
    ELSE location[1].lon[1] = 0

\* generateDailySlots throws for sunrise-sunset without a location.
SlotsThrow(schedule, location) ==
    schedule.mode = "sunrise-sunset" /\ LocationMissing(location)

DefaultTimes_Midnight == <<<<0, 0>>>>
\* default: generateFixedTimeSlots(date, ["12:00"])
DefaultTimes == <<<<12, 0>>>>

generateDailySlots(day, schedule, location, sun) ==
    CASE schedule.mode = "fixed-time" ->
            generateFixedTimeSlots(day, schedule.fixedTimes)
      [] schedule.mode = "interval" ->
            generateIntervalSlots(day, schedule.interval, schedule.window)
      [] schedule.mode = "sunrise-sunset" ->
            generateSunriseSlots(day, schedule, sun)
      [] OTHER ->
            generateFixedTimeSlots(day, DefaultTimes)

DueToleranceMinutes == 5

Abs(x) == IF x < 0 THEN 0 - x ELSE x

\* The for loop of isCaptureDue: the first slot that is not skipped as past
\* and is after the last capture; None when the loop runs to its end.
RECURSIVE FirstCandidate_IncludesNow(_, _, _)
FirstCandidate_IncludesNow(slots, t, last) ==
    IF slots = <<>> THEN None
    ELSE IF Head(slots) < t THEN FirstCandidate_IncludesNow(Tail(slots), t, last)
    ELSE IF last = None THEN Some(Head(slots))
    ELSE IF Head(slots) > last[1] THEN Some(Head(slots))
    ELSE FirstCandidate_IncludesNow(Tail(slots), t, last)

RECURSIVE FirstCandidateLoop(_, _, _)
FirstCandidateLoop(slots, t, last) ==
    IF slots = <<>> THEN None
    ELSE IF Head(slots) <= t THEN FirstCandidateLoop(Tail(slots), t, last)
    ELSE IF last = None THEN Some(Head(slots))
    ELSE IF Head(slots) > last[1] THEN Some(Head(slots))
    ELSE FirstCandidateLoop(Tail(slots), t, last)

FirstCandidate(slots, t, last) == FirstCandidateLoop(slots, t, last)

\* today: the day of `t`, at 00:00.
DayOf(t) == t \div MinutesPerDay

TodaySlots(schedule, location, t, sun) ==
    generateDailySlots(DayOf(t), schedule, location, sun)

\* The slot isCaptureDue returns on at instant t, if any.
DueCandidate(schedule, last, location, t, sun) ==
    FirstCandidate(TodaySlots(schedule, location, t, sun), t, last)

\* return timeDiff <= 5, with timeDiff = Math.abs(slot - now) in minutes;
\* return false after the loop.
isCaptureDue(schedule, last, location, t, sun) ==
    LET slot == DueCandidate(schedule, last, location, t, sun)
    IN  IF slot = None THEN FALSE
        ELSE Abs(slot[1] - t) <= DueToleranceMinutes

\* The for loop of getNextCaptureTime: the first slot of the list, in list
\* order, that is after t; None when the loop runs to its end.
RECURSIVE FirstAfterLoop(_, _)
FirstAfterLoop(slots, t) ==
    IF slots = <<>> THEN None
    ELSE IF Head(slots) > t THEN Some(Head(slots))
    ELSE FirstAfterLoop(Tail(slots), t)

FirstAfter(slots, t) == FirstAfterLoop(slots, t)

\* now = the instant t; today = its day at 00:00; tomorrow = today + 1 day.
\* None stands for null.
getNextCaptureTime(schedule, location, t, sun) ==
    LET todaySlots == generateDailySlots(DayOf(t), schedule, location, sun)
        tomorrowSlots == generateDailySlots(DayOf(t) + 1, schedule, location, sun)
    IN  IF FirstAfter(todaySlots, t) # None THEN FirstAfter(todaySlots, t)
        ELSE IF Len(tomorrowSlots) > 0 THEN Some(tomorrowSlots[1])
        ELSE None

ShotsPerHourOutOfRange_Above59(shotsPerHour) == shotsPerHour < 1 \/ shotsPerHour > 59
\* schedule.interval.shotsPerHour < 1 || schedule.interval.shotsPerHour > 60
ShotsPerHourOutOfRange(shotsPerHour) == shotsPerHour < 1 \/ shotsPerHour > 60

\* errors in the order they are pushed.  A mode of "unset" is the absent mode.
\* interval.shotsPerHour = 0 is the absent value: !shotsPerHour holds of it and
\* both comparisons of the range test are false of undefined.
validateSchedule(schedule) ==
    LET shotsPerHour == schedule.interval.shotsPerHour
        modeErrors ==
            IF schedule.mode = "unset" THEN <<"Schedule mode is required">> ELSE <<>>
        fixedErrors ==
            IF schedule.mode = "fixed-time" /\ Len(schedule.fixedTimes) = 0
            THEN <<"Fixed time mode requires at least one time">> ELSE <<>>
        missingErrors ==
            IF schedule.mode = "interval" /\ shotsPerHour = 0
            THEN <<"Interval mode requires shotsPerHour configuration">> ELSE <<>>
        rangeErrors ==
            IF schedule.mode = "interval" /\ shotsPerHour # 0
                  /\ ShotsPerHourOutOfRange(shotsPerHour)
            THEN <<"shotsPerHour must be between 1 and 60">> ELSE <<>>
        errors == modeErrors \o fixedErrors \o missingErrors \o rangeErrors
    IN  [isValid |-> Len(errors) = 0, errors |-> errors]

(***************************************************************************)
(* capture-and-timelapse.js: fetchMissingSnapshots, the backfill walker    *)
(***************************************************************************)

HARD_LIMIT_DAYS == 365

DefaultMaxNoData == 7

\* An error message is the set of the patterns of the three regular
\* expressions that its lower-cased text contains.
FatalPatterns == {"failed to login", "eperm", "econnrefused", "unauthorized",
                  "forbidden", "invalid credentials", "network unreachable"}
NoDataPatterns == {"404", "no data", "no recording", "no video data", "not found",
                   "taking too long", "throttling api calls", "timed out"}
NotFoundPatterns == {"404", "not found"}

fatalConnectionError_NoLogin(message) ==
    message \cap (FatalPatterns \ {"failed to login"}) # {}
fatalConnectionError(message) == message \cap FatalPatterns # {}
looksLikeNoData_NoNotFound(message) ==
    message \cap (NoDataPatterns \ NotFoundPatterns) # {}
looksLikeNoData(message) == message \cap NoDataPatterns # {}
\* /404|not found|/: the empty alternative matches every message.
looksLikeNotFound_Everything(message) == message \cap NotFoundPatterns # {} \/ TRUE
looksLikeNotFound(message) == message \cap NotFoundPatterns # {}

\* Messages of the archive client and of the frame extraction:
\* "Failed to login to UniFi Protect", "connect ECONNREFUSED", "403 Forbidden:
\* camera not found", "No video data received", "404 Not Found", "recording not
\* found", "request timed out", "throttling API calls", "ffmpeg exited with
\* code 1", "socket hang up".
FatalMessages == { {"failed to login"}, {"econnrefused"}, {"forbidden", "not found"} }
NotFoundMessages == { {"404", "not found"}, {"not found"} }
NoDataMessages == { {"no video data"}, {"timed out"}, {"throttling api calls"} }
OtherMessages == { {} }
Messages == FatalMessages \cup NotFoundMessages \cup NoDataMessages \cup OtherMessages

Success == [ok |-> TRUE, message |-> {}]
Failure(message) == [ok |-> FALSE, message |-> message]

\* What client.exportVideo + client.extractFrameFromVideo can answer to the
\* `attempt`-th request of the pass, per kind of archive.
Responses(archive, attempt) ==
    CASE archive = "ok" -> {Success}
      [] archive = "notfound" -> {Failure(m) : m \in NotFoundMessages}
      [] archive = "nodata" -> {Failure(m) : m \in NoDataMessages}
      [] archive = "fatalfirst" /\ attempt = 1 -> {Failure(m) : m \in FatalMessages}
      [] OTHER -> {Success} \cup {Failure(m) : m \in Messages}

\* Number.isFinite(historyConfig.maxDays) ? historyConfig.maxDays : null
maxDays == config.history.maxDays

\* historyConfig.stopAfterConsecutiveNoData ?? 7
maxNoData ==
    IF config.history.stopAfterConsecutiveNoData = None
    THEN DefaultMaxNoData ELSE config.history.stopAfterConsecutiveNoData[1]

\* targetDate: midnight of the day dayOffset days before the run.
TargetDate(offset) == (0 - offset) * MinutesPerDay

\* slots.filter((slot) => slot.getTime() <= now.getTime())
RECURSIVE FilterNotFuture(_, _)
FilterNotFuture(slots, t) ==
    IF slots = <<>> THEN <<>>
    ELSE IF Head(slots) <= t
         THEN <<Head(slots)>> \o FilterNotFuture(Tail(slots), t)
         ELSE FilterNotFuture(Tail(slots), t)

ValidSlotsOf(offset) ==
    FilterNotFuture(
        generateDailySlots(0 - offset, config.schedule, config.location, env.sun),
        env.now)

\* slot.toISOString().split("T")[0]: the UTC calendar day of the instant.
DateStr(slot) == (slot - env.tzOffset) \div MinutesPerDay

\* padStart(getHours()) + padStart(getMinutes()): local HHMM, as the number
\* whose four digits are the string.
TimeStr(slot) == ((slot % MinutesPerDay) \div 60) * 100 + ((slot % MinutesPerDay) % 60)

\* `${dateStr}_${timeStr}.jpg`
Filename(slot) == <<DateStr(slot), TimeStr(slot)>>

\* maxDays !== null && dayOffset >= maxDays
ReachedMaxDays == IF maxDays = None THEN FALSE ELSE dayOffset >= maxDays[1]

ReachedHardLimit_OffByOne == dayOffset > HARD_LIMIT_DAYS
\* dayOffset >= HARD_LIMIT_DAYS
ReachedHardLimit == dayOffset >= HARD_LIMIT_DAYS

WithinLimits == ~ReachedMaxDays /\ ~ReachedHardLimit

\* if (maxDays !== null && dayOffset >= maxDays) break;
BreakMaxDays ==
    /\ pc = "day"
    /\ ReachedMaxDays
    /\ pc' = "done"
    /\ stopReason' = "maxDays"
    /\ UNCHANGED <<config, env, dayOffset, validSlots, slotIdx, dayHadAnyData,
                   capturedCount, skippedCount, failedCount, consecutiveNoData,
                   consecutiveNotFound, consecutiveFailures, attemptCount,
                   existingSnapshots, capturedTimeSlots, disk, daysScanned,
                   lastOutcome>>
    /\ UNCHANGED <<dueVars, videoVars, mainVars, asmVars, slotVars, seqVars>>

\* if (dayOffset >= HARD_LIMIT_DAYS) break;
BreakHardLimit ==
    /\ pc = "day"
    /\ ~ReachedMaxDays
    /\ ReachedHardLimit
    /\ pc' = "done"
    /\ stopReason' = "hardLimit"
    /\ UNCHANGED <<config, env, dayOffset, validSlots, slotIdx, dayHadAnyData,
                   capturedCount, skippedCount, failedCount, consecutiveNoData,
                   consecutiveNotFound, consecutiveFailures, attemptCount,
                   existingSnapshots, capturedTimeSlots, disk, daysScanned,
                   lastOutcome>>
    /\ UNCHANGED <<dueVars, videoVars, mainVars, asmVars, slotVars, seqVars>>

\* A day loop whose `continue` does not reach the dayOffset++ of the for
\* statement.
SkipDay_NoAdvance ==
    /\ pc = "day"
    /\ WithinLimits
    /\ \/ TargetDate(dayOffset) > env.now
       \/ SlotsThrow(config.schedule, config.location)
       \/ ValidSlotsOf(dayOffset) = <<>>
    /\ UNCHANGED vars
\* The three `continue`s of the day loop: the day is in the future, slot
\* generation threw, or no slot of the day is at or before now.
SkipDay ==
    /\ pc = "day"
    /\ WithinLimits
    /\ \/ TargetDate(dayOffset) > env.now
       \/ SlotsThrow(config.schedule, config.location)
       \/ ValidSlotsOf(dayOffset) = <<>>
    /\ dayOffset' = dayOffset + 1
    /\ UNCHANGED <<config, env, pc, validSlots, slotIdx, dayHadAnyData,
                   capturedCount, skippedCount, failedCount, consecutiveNoData,
                   consecutiveNotFound, consecutiveFailures, attemptCount,
                   existingSnapshots, capturedTimeSlots, disk, daysScanned,
                   lastOutcome, stopReason>>
    /\ UNCHANGED <<dueVars, videoVars, mainVars, asmVars, slotVars, seqVars>>

\* The day has slots to process: let dayHadAnyData = false; for (slot of ...).
EnterDay ==
    /\ pc = "day"
    /\ WithinLimits
    /\ ~(TargetDate(dayOffset) > env.now)
    /\ ~SlotsThrow(config.schedule, config.location)
    /\ ValidSlotsOf(dayOffset) # <<>>
    /\ validSlots' = ValidSlotsOf(dayOffset)
    /\ slotIdx' = 1
    /\ dayHadAnyData' = FALSE
    /\ daysScanned' = daysScanned + 1
    /\ pc' = "slot"
    /\ UNCHANGED <<config, env, dayOffset,
                   capturedCount, skippedCount, failedCount, consecutiveNoData,
                   consecutiveNotFound, consecutiveFailures, attemptCount,
                   existingSnapshots, capturedTimeSlots, disk,
                   lastOutcome, stopReason>>
    /\ UNCHANGED <<dueVars, videoVars, mainVars, asmVars, slotVars, seqVars>>

\* A skip that counts the frame already present as a success of the archive.
SkipExisting_Resets ==
    /\ pc = "slot" /\ slotIdx <= Len(validSlots)
    /\ Filename(validSlots[slotIdx]) \in existingSnapshots
    /\ capturedTimeSlots' = capturedTimeSlots \cup {TimeStr(validSlots[slotIdx])}
    /\ skippedCount' = skippedCount + 1
    /\ dayHadAnyData' = TRUE
    /\ slotIdx' = slotIdx + 1
    /\ lastOutcome' = "skipped"
    /\ consecutiveNoData' = 0 /\ consecutiveNotFound' = 0 /\ consecutiveFailures' = 0
    /\ UNCHANGED <<config, env, pc, dayOffset, validSlots,
                   capturedCount, failedCount, attemptCount,
                   existingSnapshots, disk, daysScanned, stopReason>>
    /\ UNCHANGED <<dueVars, videoVars, mainVars, asmVars, slotVars, seqVars>>

\* if (existingSnapshots.has(filename)) { skippedCount++; ...; continue; }
SkipExisting ==
    /\ pc = "slot" /\ slotIdx <= Len(validSlots)
    /\ Filename(validSlots[slotIdx]) \in existingSnapshots
    /\ capturedTimeSlots' = capturedTimeSlots \cup {TimeStr(validSlots[slotIdx])}
    /\ skippedCount' = skippedCount + 1
    /\ dayHadAnyData' = TRUE
    /\ slotIdx' = slotIdx + 1
    /\ lastOutcome' = "skipped"
    /\ UNCHANGED <<config, env, pc, dayOffset, validSlots,
                   capturedCount, failedCount, consecutiveNoData,
                   consecutiveNotFound, consecutiveFailures, attemptCount,
                   existingSnapshots, disk, daysScanned, stopReason>>
    /\ UNCHANGED <<dueVars, videoVars, mainVars, asmVars, slotVars, seqVars>>

\* The try branch: the clip was exported and its frame written.
AttemptSucceeds ==
    /\ pc = "slot" /\ slotIdx <= Len(validSlots)
    /\ Filename(validSlots[slotIdx]) \notin existingSnapshots
    /\ Success \in Responses(env.archive, attemptCount + 1)
    /\ capturedTimeSlots' = capturedTimeSlots \cup {TimeStr(validSlots[slotIdx])}
    /\ attemptCount' = attemptCount + 1
    /\ disk' = disk \cup {Filename(validSlots[slotIdx])}
    /\ capturedCount' = capturedCount + 1
    /\ dayHadAnyData' = TRUE
    /\ consecutiveNoData' = 0
    /\ consecutiveNotFound' = 0
    /\ consecutiveFailures' = 0
    /\ slotIdx' = slotIdx + 1
    /\ lastOutcome' = "captured"
    /\ UNCHANGED <<config, env, pc, dayOffset, validSlots, skippedCount,
                   failedCount, existingSnapshots, daysScanned, stopReason>>
    /\ UNCHANGED <<dueVars, videoVars, mainVars, asmVars, slotVars, seqVars>>

\* The class of a failure, in the order the catch block tests it.
FailureClass(message) ==
    IF fatalConnectionError(message) THEN "fatal"
    ELSE IF looksLikeNotFound(message) THEN "notfound"
    ELSE IF looksLikeNoData(message) THEN "nodata"
    ELSE "other"

\* The catch branch with a fatal message: throw, out of fetchMissingSnapshots.
AttemptFatal ==
    /\ pc = "slot" /\ slotIdx <= Len(validSlots)
    /\ Filename(validSlots[slotIdx]) \notin existingSnapshots
    /\ \E r \in Responses(env.archive, attemptCount + 1) :
          /\ ~r.ok
          /\ fatalConnectionError(r.message)
    /\ capturedTimeSlots' = capturedTimeSlots \cup {TimeStr(validSlots[slotIdx])}
    /\ attemptCount' = attemptCount + 1
    /\ failedCount' = failedCount + 1
    /\ pc' = "aborted"
    /\ stopReason' = "fatal"
    /\ lastOutcome' = "fatal"
    /\ UNCHANGED <<config, env, dayOffset, validSlots, slotIdx, dayHadAnyData,
                   capturedCount, skippedCount, consecutiveNoData,
                   consecutiveNotFound, consecutiveFailures,
                   existingSnapshots, disk, daysScanned>>
    /\ UNCHANGED <<dueVars, videoVars, mainVars, asmVars, slotVars, seqVars>>

\* Whether outputPath holds a file when the attempt is rejected.  exportVideo
\* rejects before anything is written.  extractFrameFromVideo rejects when
\* ffmpeg exits with a non-zero code or is killed, and also when ffmpeg exited
\* with code 0 but fs.unlink of the temporary clip failed; neither path removes
\* outputPath, so what ffmpeg wrote there stays.  Those rejections carry
\* messages of no pattern ("ffmpeg exited with code 1", "ENOENT: no such file
\* or directory, unlink ...").
FrameLeftBehind(message) ==
    IF message \in OtherMessages THEN BOOLEAN ELSE {FALSE}

\* The catch branch with a non-fatal message: the three counters.
AttemptFails ==
    /\ pc = "slot" /\ slotIdx <= Len(validSlots)
    /\ Filename(validSlots[slotIdx]) \notin existingSnapshots
    /\ \E r \in Responses(env.archive, attemptCount + 1) :
          /\ ~r.ok
          /\ ~fatalConnectionError(r.message)
          /\ consecutiveFailures' = consecutiveFailures + 1
          /\ consecutiveNoData' =
                IF looksLikeNoData(r.message) THEN consecutiveNoData + 1 ELSE 0
          /\ consecutiveNotFound' =
                IF looksLikeNotFound(r.message) THEN consecutiveNotFound + 1 ELSE 0
          /\ lastOutcome' = FailureClass(r.message)
          /\ \E left \in FrameLeftBehind(r.message) :
                disk' = IF left THEN disk \cup {Filename(validSlots[slotIdx])}
                        ELSE disk
    /\ capturedTimeSlots' = capturedTimeSlots \cup {TimeStr(validSlots[slotIdx])}
    /\ attemptCount' = attemptCount + 1
    /\ failedCount' = failedCount + 1
    /\ slotIdx' = slotIdx + 1
    /\ UNCHANGED <<config, env, pc, dayOffset, validSlots, dayHadAnyData,
                   capturedCount, skippedCount,
                   existingSnapshots, daysScanned, stopReason>>
    /\ UNCHANGED <<dueVars, videoVars, mainVars, asmVars, slotVars, seqVars>>

\* The stop conditions evaluated after the last slot of a day.
StopNotFound == ~dayHadAnyData /\ consecutiveNotFound >= 3
hitConfiguredNoDataLimit == consecutiveNoData >= maxNoData
hitThreeNoDataFailures_Four == consecutiveFailures >= 4
hitThreeNoDataFailures == consecutiveFailures >= 3
StopNoData ==
    /\ ~dayHadAnyData
    /\ ~(consecutiveNotFound >= 3)
    /\ (hitConfiguredNoDataLimit \/ hitThreeNoDataFailures)

EndOfDayStop ==
    /\ pc = "slot" /\ slotIdx > Len(validSlots)
    /\ StopNotFound \/ StopNoData
    /\ pc' = "done"
    /\ stopReason' = IF StopNotFound THEN "notFound"
                     ELSE IF hitConfiguredNoDataLimit THEN "noData"
                     ELSE "failures"
    /\ UNCHANGED <<config, env, dayOffset, validSlots, slotIdx, dayHadAnyData,
                   capturedCount, skippedCount, failedCount, consecutiveNoData,
                   consecutiveNotFound, consecutiveFailures, attemptCount,
                   existingSnapshots, capturedTimeSlots, disk, daysScanned,
                   lastOutcome>>
    /\ UNCHANGED <<dueVars, videoVars, mainVars, asmVars, slotVars, seqVars>>

EndOfDayContinue ==
    /\ pc = "slot" /\ slotIdx > Len(validSlots)
    /\ ~(StopNotFound \/ StopNoData)
    /\ dayOffset' = dayOffset + 1
    /\ pc' = "day"
    /\ UNCHANGED <<config, env, validSlots, slotIdx, dayHadAnyData,
                   capturedCount, skippedCount, failedCount, consecutiveNoData,
                   consecutiveNotFound, consecutiveFailures, attemptCount,
                   existingSnapshots, capturedTimeSlots, disk, daysScanned,
                   lastOutcome, stopReason>>
    /\ UNCHANGED <<dueVars, videoVars, mainVars, asmVars, slotVars, seqVars>>

(***************************************************************************)
(* The passes explored: configurations, worlds and frame stores            *)
(***************************************************************************)

MaxDays == 2          \* config.history.maxDays ranges over 0..MaxDays
StoreDays == 2        \* the frame store may hold frames of the last StoreDays days

\* schedule.interval is [shotsPerHour |-> n], n = 0 standing for an unset
\* value; an unset window bound is None.
BaseSchedule ==
    [mode |-> "unset", fixedTimes |-> <<>>, interval |-> [shotsPerHour |-> 0],
     window |-> [startHour |-> None, endHour |-> None],
     captureSunrise |-> TRUE, captureSunset |-> TRUE,
     sunriseOffset |-> 0, sunsetOffset |-> 0]

FixedNoon == [BaseSchedule EXCEPT !.mode = "fixed-time", !.fixedTimes = <<<<12, 0>>>>]
FixedTwo ==
    [BaseSchedule EXCEPT !.mode = "fixed-time", !.fixedTimes = <<<<18, 30>>, <<9, 0>>>>]
FixedThree ==
    [BaseSchedule EXCEPT !.mode = "fixed-time",
                         !.fixedTimes = <<<<9, 0>>, <<12, 0>>, <<21, 15>>>>]
IntervalTwoHours ==
    [BaseSchedule EXCEPT !.mode = "interval", !.interval = [shotsPerHour |-> 1],
                         !.window = [startHour |-> <<10, 0>>, endHour |-> <<12, 30>>]]
SunriseSunset ==
    [BaseSchedule EXCEPT !.mode = "sunrise-sunset", !.sunsetOffset = -30]

WalkerSchedules == {BaseSchedule, FixedNoon, FixedTwo, FixedThree,
                    IntervalTwoHours, SunriseSunset}

SomeLocation == Some([lat |-> Some(37), lon |-> Some(-122)])

\* What SunCalc.getTimes answers for SomeLocation.
DefaultSun == [sunrise |-> HM(6, 30), sunset |-> HM(19, 45)]

Configs ==
    { [schedule |-> s, location |-> l,
       history |-> [maxDays |-> d, stopAfterConsecutiveNoData |-> n]] :
        s \in WalkerSchedules,
        l \in {None, SomeLocation},
        d \in {None, Some(HARD_LIMIT_DAYS + 1)} \cup {Some(k) : k \in 0..MaxDays},
        n \in {None, Some(2), Some(DefaultMaxNoData)} }

Archives == {"ok", "notfound", "nodata", "fatalfirst", "any"}

Envs ==
    { [now |-> t, tzOffset |-> z, sun |-> DefaultSun, archive |-> a] :
        t \in {HM(8, 0), HM(13, 0), HM(23, 0)},
        z \in {0, 0 - HM(8, 0)},
        a \in Archives }

\* A pass that may walk to the 365-day ceiling.
LongWalk(c) == c.history.maxDays = None \/ c.history.maxDays[1] > MaxDays

\* Long walks are explored with an archive that answers every request alike,
\* and, when it always has the clip, from an empty store in UTC.
Explored(c, e, files) ==
    /\ (c.location = None => c.schedule.mode = "sunrise-sunset")
    /\ (c.history.stopAfterConsecutiveNoData # None =>
            e.archive \in {"nodata", "any"})
    /\ (LongWalk(c) => e.archive # "any")
    /\ (LongWalk(c) /\ e.archive = "ok" =>
            files = {} /\ e.tzOffset = 0 /\ e.now = HM(13, 0))

\* The frames a store holds of one day: none, all, or the first slot only.
DayFiles(c, e, offset, pattern) ==
    LET slots == IF SlotsThrow(c.schedule, c.location) THEN <<>>
                 ELSE FilterNotFuture(
                        generateDailySlots(0 - offset, c.schedule, c.location, e.sun),
                        e.now)
        name(slot) == <<(slot - e.tzOffset) \div MinutesPerDay,
                        ((slot % MinutesPerDay) \div 60) * 100
                            + ((slot % MinutesPerDay) % 60)>>
    IN  CASE pattern = "all" -> {name(slots[i]) : i \in 1..Len(slots)}
          [] pattern = "first" -> {name(slots[i]) : i \in {j \in 1..Len(slots) : j = 1}}
          [] OTHER -> {}

Stores(c, e) ==
    { UNION {DayFiles(c, e, k, p[k + 1]) : k \in 0..(StoreDays - 1)} :
        p \in [1..StoreDays -> {"none", "all", "first"}] }

\* The value of `ret` before the call returns.
NoReturn ==
    [op |-> "none", threw |-> FALSE, slots |-> <<>>, next |-> None,
     isValid |-> FALSE, errors |-> <<>>]

SlotsIdle == call = None /\ ret = NoReturn

SeqIdle ==
    /\ nCams = 0 /\ seqPc = "off" /\ seqCam = 0 /\ busy = {}
    /\ issued = 0 /\ settled = 0 /\ outstanding = 0

DueIdle ==
    /\ now = 0 /\ lastCapture = None /\ todaySchedule = BaseSchedule
    /\ due = FALSE /\ dueSlot = None /\ fireCount = <<>> /\ pollGap = 0
    /\ pollPc = "off"

VideoIdle ==
    /\ clock = 0 /\ frameMtime = <<>> /\ videoMtime = None /\ videoResult = "none"
    /\ videoContent = None

MainIdle ==
    /\ cameras = <<>> /\ hasPassword = TRUE /\ camIdx = 0 /\ mainPc = "off"
    /\ results = <<>> /\ attempted = {} /\ failedCameras = {} /\ exitCode = None

AsmIdle ==
    /\ store = <<>> /\ asmPc = "off" /\ dailyVideos = <<>> /\ timeGroups = <<>>
    /\ dvIdx = 0 /\ tgIdx = 0 /\ dailyArtifacts = {} /\ concatList = None
    /\ concatName = None /\ timelapses = {} /\ encoderRuns = {}

\* One more pass: a fixed 12:00 schedule, maxDays = ScenarioDays, and a store
\* holding the 12:00 frame of each of the last ScenarioDays local dates.
ScenarioDays == 5

ScenarioConfig ==
    [schedule |-> FixedNoon, location |-> SomeLocation,
     history |-> [maxDays |-> Some(ScenarioDays), stopAfterConsecutiveNoData |-> None]]

ScenarioEnvs ==
    { [now |-> t, tzOffset |-> z, sun |-> DefaultSun, archive |-> a] :
        t \in {HM(8, 0), HM(12, 0), HM(13, 0), HM(23, 0)},
        z \in {0, 0 - HM(8, 0), HM(13, 0)},
        a \in Archives }

ScenarioStore == { <<0 - o, 1200>> : o \in 0..(ScenarioDays - 1) }

\* fetchMissingSnapshots up to the day loop: counters at 0, the directory read.
\* A pass over a schedule that lists one time twice, as the setup stores it
\* when "12:00,12:00" is typed (split on commas, trim, no deduplication).
FixedTwice ==
    [BaseSchedule EXCEPT !.mode = "fixed-time", !.fixedTimes = <<<<12, 0>>, <<12, 0>>>>]
RepeatConfigs ==
    { [schedule |-> FixedTwice, location |-> None,
       history |-> [maxDays |-> Some(d), stopAfterConsecutiveNoData |-> None]] :
        d \in 1..MaxDays }

Init ==
    /\ \/ /\ config \in Configs
          /\ env \in Envs
          /\ disk \in Stores(config, env)
          /\ Explored(config, env, disk)
       \/ /\ config \in RepeatConfigs
          /\ env \in Envs
          /\ disk = {}
       \/ /\ config = ScenarioConfig
          /\ env \in ScenarioEnvs
          /\ disk = ScenarioStore
    /\ existingSnapshots = disk
    /\ pc = "day"
    /\ dayOffset = 0
    /\ validSlots = <<>>
    /\ slotIdx = 1
    /\ dayHadAnyData = FALSE
    /\ capturedCount = 0 /\ skippedCount = 0 /\ failedCount = 0
    /\ consecutiveNoData = 0 /\ consecutiveNotFound = 0 /\ consecutiveFailures = 0
    /\ attemptCount = 0
    /\ capturedTimeSlots = {}
    /\ daysScanned = 0
    /\ lastOutcome = "none"
    /\ stopReason = "none"
    /\ DueIdle /\ VideoIdle /\ MainIdle /\ AsmIdle /\ SlotsIdle /\ SeqIdle

Next ==
    \/ BreakMaxDays
    \/ BreakHardLimit
    \/ SkipDay
    \/ EnterDay
    \/ SkipExisting
    \/ AttemptSucceeds
    \/ AttemptFatal
    \/ AttemptFails
    \/ EndOfDayStop
    \/ EndOfDayContinue

Spec == Init /\ [][Next]_vars

(***************************************************************************)
(* Backfill walker: stop, abort and bound laws                             *)
(***************************************************************************)

\* The day a slot belongs to, as an offset back from the day of the run.
DayOffsetOf(slot) == 0 - (slot \div MinutesPerDay)

UnboundedPass == maxDays = None /\ ~SlotsThrow(config.schedule, config.location)

\* C1: from an empty frame store, with an archive that answers every request
\* with a not-found failure and maxDays unbounded, the walker has scanned
\* exactly 3 days when it stops, for every schedule.
C1_NotFoundStopsAfterThreeDays ==
    (/\ env.archive = "notfound"
     /\ existingSnapshots = {}
     /\ UnboundedPass
     /\ pc = "done")
    => daysScanned = 3

\* C2: from an empty frame store, with an archive that answers every request
\* with a no-data failure (not not-found), stopAfterConsecutiveNoData = 7 and
\* maxDays unbounded, the walker has scanned exactly 7 days when it stops.
C2_NoDataStopsAfterSevenDays ==
    (/\ env.archive = "nodata"
     /\ existingSnapshots = {}
     /\ UnboundedPass
     /\ maxNoData = 7
     /\ pc = "done")
    => daysScanned = 7

\* C3: when the first archive request of a pass fails with a fatal-class
\* message, the pass has issued exactly one request and has ended with the
\* abort error, whatever maxDays and the schedule are.
C3_FatalFirstAbortsAfterOneRequest ==
    (env.archive = "fatalfirst" /\ attemptCount >= 1)
    => (attemptCount = 1 /\ pc = "aborted" /\ stopReason = "fatal")

C3_Witness ==
    /\ env.archive = "fatalfirst" /\ pc = "aborted" /\ attemptCount = 1
    /\ skippedCount >= 1
    /\ maxDays = None

\* C4: no slot is generated, looked up or requested for a day with
\* dayOffset >= 365, nor for a day with dayOffset >= maxDays when maxDays is
\* configured, and the number of days scanned never exceeds min(maxDays, 365).
C4_BackfillBound ==
    /\ daysScanned <= HARD_LIMIT_DAYS
    /\ (maxDays # None => daysScanned <= maxDays[1])
    /\ pc = "slot" =>
          /\ dayOffset < HARD_LIMIT_DAYS
          /\ (maxDays # None => dayOffset < maxDays[1])
          /\ \A i \in 1..Len(validSlots) :
                /\ DayOffsetOf(validSlots[i]) < HARD_LIMIT_DAYS
                /\ (maxDays # None => DayOffsetOf(validSlots[i]) < maxDays[1])

C4_Witness ==
    /\ pc = "done" /\ stopReason = "hardLimit"
    /\ daysScanned = HARD_LIMIT_DAYS
    /\ capturedCount >= HARD_LIMIT_DAYS

(***************************************************************************)
(* isCaptureDue evaluated on drawn inputs                                  *)
(***************************************************************************)

FixedClose ==
    [BaseSchedule EXCEPT !.mode = "fixed-time", !.fixedTimes = <<<<12, 3>>, <<12, 0>>>>]

DueSchedules == {FixedNoon, FixedTwo, FixedClose, IntervalTwoHours, SunriseSunset}

WalkerIdle ==
    /\ config = [schedule |-> BaseSchedule, location |-> None,
                 history |-> [maxDays |-> None, stopAfterConsecutiveNoData |-> None]]
    /\ env = [now |-> 0, tzOffset |-> 0, sun |-> DefaultSun, archive |-> "ok"]
    /\ pc = "off" /\ dayOffset = 0 /\ validSlots = <<>> /\ slotIdx = 1
    /\ dayHadAnyData = FALSE
    /\ capturedCount = 0 /\ skippedCount = 0 /\ failedCount = 0
    /\ consecutiveNoData = 0 /\ consecutiveNotFound = 0 /\ consecutiveFailures = 0
    /\ attemptCount = 0 /\ existingSnapshots = {} /\ capturedTimeSlots = {}
    /\ disk = {} /\ daysScanned = 0 /\ lastOutcome = "none" /\ stopReason = "none"

\* The last capture relative to now: unknown, earlier today, or (a clock set
\* back, a capture recorded by another host) later than now.
LastCaptures(t) == {None, Some(t - 20), Some(t + 2), Some(t + 7)}

DueInit ==
    /\ todaySchedule \in DueSchedules
    /\ now \in 0..(MinutesPerDay - 1)
    /\ lastCapture \in LastCaptures(now)
    /\ due = FALSE /\ dueSlot = None
    /\ fireCount = <<>>
    /\ pollGap = 0
    /\ pollPc = "call"
    /\ WalkerIdle /\ VideoIdle /\ MainIdle /\ AsmIdle /\ SlotsIdle /\ SeqIdle

\* One call of isCaptureDue(schedule, lastCapture, location).
Evaluate ==
    /\ pollPc = "call"
    /\ due' = isCaptureDue(todaySchedule, lastCapture, SomeLocation, now, DefaultSun)
    /\ dueSlot' = IF isCaptureDue(todaySchedule, lastCapture, SomeLocation, now, DefaultSun)
                  THEN DueCandidate(todaySchedule, lastCapture, SomeLocation, now, DefaultSun)
                  ELSE None
    /\ pollPc' = "returned"
    /\ UNCHANGED <<now, lastCapture, todaySchedule, fireCount, pollGap>>
    /\ UNCHANGED <<walkerVars, videoVars, mainVars, asmVars, slotVars, seqVars>>

DueNext == Evaluate

SpecDue == DueInit /\ [][DueNext]_vars

\* Today's slots as a set, and those isCaptureDue may return on.
SlotSet(slots) == {slots[i] : i \in 1..Len(slots)}
EligibleSlots ==
    {s \in SlotSet(TodaySlots(todaySchedule, SomeLocation, now, DefaultSun)) :
        /\ s > now
        /\ (lastCapture # None => s > lastCapture[1])}
Earliest(S) == CHOOSE s \in S : \A t \in S : s <= t

\* C10: isCaptureDue returns true if and only if the earliest of today's slots
\* that is strictly after now and (when a last capture is known) strictly
\* after lastCapture lies within 5 minutes of now; it returns false when there
\* is no such slot, and never returns true on a slot at or before now.
C10_DueIffEarliestEligibleWithinFive ==
    pollPc = "returned" =>
        /\ due <=> (EligibleSlots # {} /\ Earliest(EligibleSlots) - now <= 5)
        /\ (EligibleSlots = {} => ~due)
        /\ (due => dueSlot # None /\ dueSlot[1] > now
                   /\ dueSlot[1] = Earliest(EligibleSlots))

C10_Witness ==
    /\ pollPc = "returned" /\ due
    /\ lastCapture # None
    /\ \E s \in SlotSet(TodaySlots(todaySchedule, SomeLocation, now, DefaultSun)) :
          s > now /\ s <= lastCapture[1]

(***************************************************************************)
(* A caller polling isCaptureDue through one day                           *)
(***************************************************************************)

CronGapMinutes == 15     \* the */15 crontab entry
MaxPollGap == 2          \* gaps of a caller polling at will: 1..MaxPollGap

PollInit ==
    /\ todaySchedule \in DueSchedules
    /\ pollGap \in {0, CronGapMinutes}
    /\ now \in IF pollGap = CronGapMinutes THEN 0..(CronGapMinutes - 1)
               ELSE {HM(8, 50), HM(11, 50)}
    /\ lastCapture \in {None, Some(0 - HM(5, 0))}
    /\ due = FALSE /\ dueSlot = None
    /\ fireCount = [s \in SlotSet(TodaySlots(todaySchedule, SomeLocation, now, DefaultSun))
                        |-> 0]
    /\ pollPc = "poll"
    /\ WalkerIdle /\ VideoIdle /\ MainIdle /\ AsmIdle /\ SlotsIdle /\ SeqIdle

\* A poll: isCaptureDue is called; when it returns true the caller captures
\* and records the poll instant as the last capture.
Poll ==
    /\ pollPc = "poll"
    /\ LET d == isCaptureDue(todaySchedule, lastCapture, SomeLocation, now, DefaultSun)
           c == DueCandidate(todaySchedule, lastCapture, SomeLocation, now, DefaultSun)
       IN  /\ due' = d
           /\ dueSlot' = IF d THEN c ELSE None
           /\ lastCapture' = IF d THEN Some(now) ELSE lastCapture
           /\ fireCount' = IF d THEN [fireCount EXCEPT ![c[1]] = @ + 1] ELSE fireCount
    /\ pollPc' = "wait"
    /\ UNCHANGED <<now, todaySchedule, pollGap>>
    /\ UNCHANGED <<walkerVars, videoVars, mainVars, asmVars, slotVars, seqVars>>

Gaps == IF pollGap = 0 THEN 1..MaxPollGap ELSE {pollGap}

\* The next poll of the same day.
Wait ==
    /\ pollPc = "wait"
    /\ \E g \in Gaps :
          /\ now + g < MinutesPerDay
          /\ now' = now + g
    /\ pollPc' = "poll"
    /\ UNCHANGED <<lastCapture, todaySchedule, due, dueSlot, fireCount, pollGap>>
    /\ UNCHANGED <<walkerVars, videoVars, mainVars, asmVars, slotVars, seqVars>>

\* No poll is left in the day.
DayOver ==
    /\ pollPc = "wait"
    /\ \A g \in Gaps : now + g >= MinutesPerDay
    /\ pollPc' = "dayover"
    /\ UNCHANGED <<now, lastCapture, todaySchedule, due, dueSlot, fireCount, pollGap>>
    /\ UNCHANGED <<walkerVars, videoVars, mainVars, asmVars, slotVars, seqVars>>

PollNext == Poll \/ Wait \/ DayOver

SpecPoll == PollInit /\ [][PollNext]_vars

\* C8: for a caller polling every 15 minutes through the day, with any
\* alignment of the polls, every slot of the day has at least one poll at
\* which isCaptureDue returned true on its account.
C8_PollingNeverMissesASlot ==
    (pollGap = CronGapMinutes /\ pollPc = "dayover")
    => \A s \in DOMAIN fireCount : fireCount[s] >= 1

\* C9: over any increasing sequence of polls, the caller recording the poll
\* instant as lastCapture whenever isCaptureDue returned true, isCaptureDue
\* returns true at most once for any one slot.
C9_NoRefire ==
    pollPc \in {"poll", "wait", "dayover"}
    => \A s \in DOMAIN fireCount : fireCount[s] <= 1

(***************************************************************************)
(* capture-and-timelapse.js: generateDailyVideo, the per-day video cache   *)
(* of one date.  Modification times are milliseconds since the epoch,      *)
(* never negative.                                                         *)
(***************************************************************************)

MinDailyFrames == 3      \* a date is a daily video when it has more than 2 frames
MaxFrames == 4           \* frames a date may come to hold
MaxClock == 3            \* the clock runs over 0..MaxClock

\* The loop over the snapshots: the greatest mtime, starting from 0.
RECURSIVE LatestLoop(_, _)
LatestLoop(mtimes, latest) ==
    IF mtimes = <<>> THEN latest
    ELSE LatestLoop(Tail(mtimes), IF Head(mtimes) > latest THEN Head(mtimes) ELSE latest)

latestSnapshotMtime(mtimes) == LatestLoop(mtimes, 0)

\* fs.stat(outputPath) succeeds and videoMtime > latestSnapshotMtime
CacheValid_NotStrict(video, mtimes) ==
    IF video = None THEN FALSE ELSE video[1] >= latestSnapshotMtime(mtimes)
CacheValid(video, mtimes) ==
    IF video = None THEN FALSE ELSE video[1] > latestSnapshotMtime(mtimes)

\* An artifact found at the start is the output of an encode that completed
\* at its mtime, of the frames stored before then.
EncodedBefore(mtimes, t) ==
    LET Older(m) == m < t IN SelectSeq(mtimes, Older)

VideoInit ==
    /\ clock \in 0..1
    /\ frameMtime \in [1..MinDailyFrames -> 0..1]
    /\ videoMtime \in {None, Some(0), Some(1)}
    /\ videoResult = "none"
    /\ videoContent = IF videoMtime = None THEN None
                      ELSE Some([frames |-> EncodedBefore(frameMtime, videoMtime[1]),
                                 complete |-> TRUE])
    /\ WalkerIdle /\ DueIdle /\ MainIdle /\ AsmIdle /\ SlotsIdle /\ SeqIdle

Tick ==
    /\ clock < MaxClock
    /\ clock' = clock + 1
    /\ UNCHANGED <<frameMtime, videoMtime, videoResult, videoContent>>
    /\ UNCHANGED <<walkerVars, dueVars, mainVars, asmVars, slotVars, seqVars>>

\* A snapshot of the date is written again (touched, re-extracted).
RewriteFrame ==
    /\ \E f \in 1..Len(frameMtime) : frameMtime' = [frameMtime EXCEPT ![f] = clock]
    /\ UNCHANGED <<clock, videoMtime, videoResult, videoContent>>
    /\ UNCHANGED <<walkerVars, dueVars, mainVars, asmVars, slotVars, seqVars>>

\* The walker stores one more snapshot of the date.
AddFrame ==
    /\ Len(frameMtime) < MaxFrames
    /\ frameMtime' = Append(frameMtime, clock)
    /\ UNCHANGED <<clock, videoMtime, videoResult, videoContent>>
    /\ UNCHANGED <<walkerVars, dueVars, mainVars, asmVars, slotVars, seqVars>>

\* generateDailyVideo returns early: "Using cached daily video".
GenerateCached ==
    /\ CacheValid(videoMtime, frameMtime)
    /\ videoResult' = "cached"
    /\ UNCHANGED <<clock, frameMtime, videoMtime, videoContent>>
    /\ UNCHANGED <<walkerVars, dueVars, mainVars, asmVars, slotVars, seqVars>>

\* ffmpeg exits with code 0: <date>.mp4 is written.
GenerateEncodes ==
    /\ ~CacheValid(videoMtime, frameMtime)
    /\ videoMtime' = Some(clock)
    /\ videoContent' = Some([frames |-> frameMtime, complete |-> TRUE])
    /\ videoResult' = "rebuilt"
    /\ UNCHANGED <<clock, frameMtime>>
    /\ UNCHANGED <<walkerVars, dueVars, mainVars, asmVars, slotVars, seqVars>>

\* ffmpeg exits with another code: the promise rejects; ffmpeg (run with -y)
\* may or may not have written to the output file before failing.
GenerateEncodeFails ==
    /\ ~CacheValid(videoMtime, frameMtime)
    /\ \E written \in BOOLEAN :
          /\ videoMtime' = IF written THEN Some(clock) ELSE videoMtime
          /\ videoContent' = IF written
                             THEN Some([frames |-> frameMtime, complete |-> FALSE])
                             ELSE videoContent
    /\ videoResult' = "failed"
    /\ UNCHANGED <<clock, frameMtime>>
    /\ UNCHANGED <<walkerVars, dueVars, mainVars, asmVars, slotVars, seqVars>>

VideoNext ==
    \/ Tick
    \/ RewriteFrame
    \/ AddFrame
    \/ GenerateCached
    \/ GenerateEncodes
    \/ GenerateEncodeFails

SpecVideo == VideoInit /\ [][VideoNext]_vars

GenerateDailyVideoCall == GenerateCached \/ GenerateEncodes \/ GenerateEncodeFails

\* C7: a call of generateDailyVideo skips the encoding if and only if the
\* artifact of the date exists and its mtime is strictly newer than the mtime
\* of every frame of the date; so a call that follows the rewriting of a
\* frame later than the artifact encodes again.
C7_CacheLaw ==
    [][GenerateDailyVideoCall =>
          /\ (videoResult' = "cached") <=>
                (/\ videoMtime # None
                 /\ \A f \in 1..Len(frameMtime) : videoMtime[1] > frameMtime[f])
          /\ (/\ videoMtime # None
              /\ \E f \in 1..Len(frameMtime) : frameMtime[f] >= videoMtime[1])
             => videoResult' # "cached"]_vars

C7_Witness ==
    /\ videoResult = "cached"
    /\ videoMtime # None
    /\ \E f \in 1..Len(frameMtime) : frameMtime[f] + 1 = videoMtime[1]
    /\ clock >= 2

(***************************************************************************)
(* capture-and-timelapse.js: main, the camera loop                         *)
(***************************************************************************)

MaxCameras == 3

\* A camera of config.cameras: whether it has an id.
CameraConfigs == [hasId : BOOLEAN]

CameraLists(lo, hi) == UNION {[1..n -> CameraConfigs] : n \in lo..hi}

MainInit ==
    /\ cameras \in CameraLists(0, MaxCameras)
    /\ hasPassword \in BOOLEAN
    /\ camIdx = 0
    /\ mainPc = "start"
    /\ results = <<>>
    /\ attempted = {}
    /\ failedCameras = {}
    /\ exitCode = None
    /\ WalkerIdle /\ DueIdle /\ VideoIdle /\ AsmIdle /\ SlotsIdle /\ SeqIdle

\* cameras.length === 0: runSetup runs, then getConfig() is asked again.
\* getConfig returns cachedConfig, the object loaded before the setup, so
\* updatedConfig.cameras is still empty and the run ends with process.exit(0).
SetupCancelled ==
    /\ mainPc = "start" /\ cameras = <<>>
    /\ exitCode' = Some(0)
    /\ mainPc' = "exited"
    /\ UNCHANGED <<cameras, hasPassword, camIdx, results, attempted, failedCameras>>
    /\ UNCHANGED <<walkerVars, dueVars, videoVars, asmVars, slotVars, seqVars>>

BeginLoop ==
    /\ mainPc = "start" /\ cameras # <<>>
    /\ camIdx' = 1
    /\ mainPc' = "loop"
    /\ UNCHANGED <<cameras, hasPassword, results, attempted, failedCameras, exitCode>>
    /\ UNCHANGED <<walkerVars, dueVars, videoVars, asmVars, slotVars, seqVars>>

\* for (let i = 0; i < cameras.length; i++) { ... try {
StartCamera ==
    /\ mainPc = "loop" /\ camIdx <= Len(cameras)
    /\ attempted' = attempted \cup {camIdx}
    /\ mainPc' = "fetch"
    /\ UNCHANGED <<cameras, hasPassword, camIdx, results, failedCameras, exitCode>>
    /\ UNCHANGED <<walkerVars, dueVars, videoVars, asmVars, slotVars, seqVars>>

\* fetchMissingSnapshots: no password, or no camera id: process.exit(1).
MissingCredentials == ~hasPassword \/ ~cameras[camIdx].hasId

FetchExits ==
    /\ mainPc = "fetch"
    /\ MissingCredentials
    /\ failedCameras' = failedCameras \cup {camIdx}
    /\ exitCode' = Some(1)
    /\ mainPc' = "exited"
    /\ UNCHANGED <<cameras, hasPassword, camIdx, results, attempted>>
    /\ UNCHANGED <<walkerVars, dueVars, videoVars, asmVars, slotVars, seqVars>>

\* The catch block: the camera's failure is recorded, the loop goes on.
CatchFailure ==
    /\ results' = Append(results, FALSE)
    /\ failedCameras' = failedCameras \cup {camIdx}
    /\ camIdx' = camIdx + 1
    /\ mainPc' = "loop"
    /\ UNCHANGED <<cameras, hasPassword, attempted, exitCode>>
    /\ UNCHANGED <<walkerVars, dueVars, videoVars, asmVars, slotVars, seqVars>>

\* fetchMissingSnapshots throws (the walker aborted on a fatal failure).
FetchThrows ==
    /\ mainPc = "fetch"
    /\ ~MissingCredentials
    /\ CatchFailure

\* fetchMissingSnapshots returns (the walker ran to one of its stops).
FetchReturns ==
    /\ mainPc = "fetch"
    /\ ~MissingCredentials
    /\ mainPc' = "assemble"
    /\ UNCHANGED <<cameras, hasPassword, camIdx, results, attempted,
                   failedCameras, exitCode>>
    /\ UNCHANGED <<walkerVars, dueVars, videoVars, asmVars, slotVars, seqVars>>

\* The analysis or an encoder run rejects.
AssembleThrows ==
    /\ mainPc = "assemble"
    /\ CatchFailure

\* results.push({ success: true })
AssembleCompletes ==
    /\ mainPc = "assemble"
    /\ results' = Append(results, TRUE)
    /\ camIdx' = camIdx + 1
    /\ mainPc' = "loop"
    /\ UNCHANGED <<cameras, hasPassword, attempted, failedCameras, exitCode>>
    /\ UNCHANGED <<walkerVars, dueVars, videoVars, asmVars, slotVars, seqVars>>

\* results.filter((r) => !r.success).length
CountFailed(rs) == Cardinality({i \in 1..Len(rs) : ~rs[i]})

\* if (failed > 0) process.exit(1); otherwise main returns: status 0.
ExitStatus_LastOnly(rs) == IF rs # <<>> /\ ~rs[Len(rs)] THEN 1 ELSE 0
ExitStatus(rs) == IF CountFailed(rs) > 0 THEN 1 ELSE 0

Summary ==
    /\ mainPc = "loop" /\ camIdx > Len(cameras)
    /\ exitCode' = Some(ExitStatus(results))
    /\ mainPc' = "exited"
    /\ UNCHANGED <<cameras, hasPassword, camIdx, results, attempted, failedCameras>>
    /\ UNCHANGED <<walkerVars, dueVars, videoVars, asmVars, slotVars, seqVars>>

MainNext ==
    \/ SetupCancelled
    \/ BeginLoop
    \/ StartCamera
    \/ FetchExits
    \/ FetchThrows
    \/ FetchReturns
    \/ AssembleThrows
    \/ AssembleCompletes
    \/ Summary

SpecMain == MainInit /\ [][MainNext]_vars

\* C5: when the processing of camera i fails for any reason, every later
\* configured camera i+1..n is still attempted.
C5_CameraIsolation ==
    mainPc = "exited" =>
        \A i \in failedCameras : \A j \in (i + 1)..Len(cameras) : j \in attempted

\* C6: the process ends with a non-zero exit status if and only if at least
\* one camera's processing failed; the failure of an earlier camera is still
\* reflected after later cameras succeeded.
C6_ExitStatusReflectsAnyFailure ==
    mainPc = "exited" =>
        /\ exitCode # None
        /\ (exitCode[1] # 0) <=> (failedCameras # {})

C6_Witness ==
    /\ mainPc = "exited"
    /\ exitCode = Some(1)
    /\ Len(results) >= 2
    /\ ~results[1]
    /\ results[Len(results)]

(***************************************************************************)
(* capture-and-timelapse.js: the video assembly of one camera, from        *)
(* analyzeSnapshotDistribution to the time-based timelapses.  A snapshot   *)
(* is [date, time, width, height]: the file <date>_<time>.jpg and the size *)
(* of its image.  Dates are day numbers and times the number HHMM, so the  *)
(* order of the names is the order of (date, time).  timelapseDir is empty *)
(* when the assembly starts.                                               *)
(***************************************************************************)

MaxDates == 2                      \* snapshots of the dates 1..MaxDates
FrameTimes == <<900, 1200, 1500>>  \* a date holds the first k of these

\* maxWidth = 1920; maxHeight = 1080: the size used when no probe succeeded.
DefaultResolution == [width |-> 1920, height |-> 1080]
Dims == {DefaultResolution, [width |-> 1280, height |-> 1440]}

SizeOf(snapshot) == [width |-> snapshot.width, height |-> snapshot.height]
NameOf(snapshot) == <<snapshot.date, snapshot.time>>

\* sort((a, b) => a.time.localeCompare(b.time)), a stable sort.
RECURSIVE InsertByTime(_, _)
InsertByTime(s, x) ==
    IF s = <<>> THEN <<x>>
    ELSE IF x.time < Head(s).time THEN <<x>> \o s
    ELSE <<Head(s)>> \o InsertByTime(Tail(s), x)

RECURSIVE SortByTime(_)
SortByTime(s) ==
    IF s = <<>> THEN <<>>
    ELSE InsertByTime(SortByTime(SubSeq(s, 1, Len(s) - 1)), s[Len(s)])

\* sort((a, b) => a.date.localeCompare(b.date)), a stable sort.
RECURSIVE InsertByDate(_, _)
InsertByDate(s, x) ==
    IF s = <<>> THEN <<x>>
    ELSE IF x.date < Head(s).date THEN <<x>> \o s
    ELSE <<Head(s)>> \o InsertByDate(Tail(s), x)

RECURSIVE SortByDate(_)
SortByDate(s) ==
    IF s = <<>> THEN <<>>
    ELSE InsertByDate(SortByDate(SubSeq(s, 1, Len(s) - 1)), s[Len(s)])

\* Array.prototype.sort() of file names <date>_<time>.jpg.
NameBefore(a, b) == a.date < b.date \/ (a.date = b.date /\ a.time < b.time)

RECURSIVE InsertByName(_, _)
InsertByName(s, x) ==
    IF s = <<>> THEN <<x>>
    ELSE IF NameBefore(x, Head(s)) THEN <<x>> \o s
    ELSE <<Head(s)>> \o InsertByName(Tail(s), x)

RECURSIVE SortByName(_)
SortByName(s) ==
    IF s = <<>> THEN <<>>
    ELSE InsertByName(SortByName(SubSeq(s, 1, Len(s) - 1)), s[Len(s)])

\* The keys of byDate, in the order a Map iterates: by first insertion.
RECURSIVE DateOrder(_)
DateOrder(files) ==
    IF files = <<>> THEN <<>>
    ELSE LET before == DateOrder(SubSeq(files, 1, Len(files) - 1))
             d == files[Len(files)].date
         IN  IF \E i \in 1..Len(before) : before[i] = d
             THEN before ELSE Append(before, d)

\* byDate.get(date)
SnapshotsOn(files, d) == SelectSeq(files, LAMBDA f : f.date = d)

IsDailyDate_TwoOrMore(dateSnapshots) == Len(dateSnapshots) >= 2
\* dateSnapshots.length > 2
IsDailyDate(dateSnapshots) == Len(dateSnapshots) >= MinDailyFrames

\* for (const [date, dateSnapshots] of byDate): the dailyVideos pushed.
RECURSIVE DailyVideosOf(_, _)
DailyVideosOf(files, dates) ==
    IF dates = <<>> THEN <<>>
    ELSE LET ds == SnapshotsOn(files, Head(dates))
         IN  (IF IsDailyDate(ds)
              THEN <<[date |-> Head(dates), snapshots |-> SortByTime(ds)]>>
              ELSE <<>>) \o DailyVideosOf(files, Tail(dates))

\* for (const [date, dateSnapshots] of byDate): the timeBasedSnapshots pushed.
RECURSIVE TimeBasedSnapshotsOf(_, _)
TimeBasedSnapshotsOf(files, dates) ==
    IF dates = <<>> THEN <<>>
    ELSE LET ds == SnapshotsOn(files, Head(dates))
         IN  (IF IsDailyDate(ds) THEN <<>> ELSE ds)
                \o TimeBasedSnapshotsOf(files, Tail(dates))

\* The keys of timeBasedGroups, by first insertion.
RECURSIVE TimeOrder(_)
TimeOrder(pool) ==
    IF pool = <<>> THEN <<>>
    ELSE LET before == TimeOrder(SubSeq(pool, 1, Len(pool) - 1))
             t == pool[Len(pool)].time
         IN  IF \E i \in 1..Len(before) : before[i] = t
             THEN before ELSE Append(before, t)

\* Array.from(timeBasedGroups.entries()).map(...).sort(by time); hour and
\* minute are parseInt of the two halves of the four digits.
TimeGroupsOf(pool) ==
    LET times == TimeOrder(pool)
    IN  SortByTime([i \in 1..Len(times) |->
            [time |-> times[i],
             hour |-> times[i] \div 100,
             minute |-> times[i] % 100,
             snapshots |-> SortByDate(SelectSeq(pool, LAMBDA f : f.time = times[i]))]])

analyzeSnapshotDistribution_PoolAll(files) ==
    [dailyVideos |-> DailyVideosOf(files, DateOrder(files)), timeGroups |-> TimeGroupsOf(files)]
analyzeSnapshotDistribution(files) ==
    [dailyVideos |-> DailyVideosOf(files, DateOrder(files)),
     timeGroups |-> TimeGroupsOf(TimeBasedSnapshotsOf(files, DateOrder(files)))]

\* generateDailyVideo: the size of the first snapshot, the default when the
\* probe of that file throws.
DailyResolution(snapshots, probed) ==
    IF probed THEN SizeOf(snapshots[1]) ELSE DefaultResolution

\* concatenateDailyVideos: lines = dailyVideos.map((dv) => `file '<date>.mp4'`)
ConcatDates(dvs) == [i \in 1..Len(dvs) |-> dvs[i].date]

\* full-timelapse_<firstDate>_to_<lastDate>.mp4
ConcatName(dvs) == <<dvs[1].date, dvs[Len(dvs)].date>>

\* generateTimelapse: files.filter(includes(`_${timeStr}.jpg`)).sort(), with
\* timeStr the two padded numbers put together again.
TimelapseSnapshots(files, hour, minute) ==
    SortByName(SelectSeq(files, LAMBDA f : f.time = hour * 100 + minute))

\* The sizes getImageDimensions returned, in the order of the loop; a file
\* whose probe throws is passed over.
RECURSIVE ProbedFrom(_, _, _)
ProbedFrom(snapshots, readable, i) ==
    IF i > Len(snapshots) THEN <<>>
    ELSE (IF i \in readable THEN <<SizeOf(snapshots[i])>> ELSE <<>>)
            \o ProbedFrom(snapshots, readable, i + 1)

\* if (dimensions.width > maxWidth) { maxWidth = ...; maxHeight = ...; }
RECURSIVE LargestLoop(_, _)
LargestLoop(sizes, largest) ==
    IF sizes = <<>> THEN largest
    ELSE LargestLoop(Tail(sizes),
                     IF Head(sizes).width > largest.width THEN Head(sizes)
                     ELSE largest)

\* generateTimelapse: maxWidth x maxHeight, the default when maxWidth is 0.
TimelapseResolution(sizes) ==
    LET largest == LargestLoop(sizes, [width |-> 0, height |-> 0])
    IN  IF largest.width = 0 THEN DefaultResolution ELSE largest

\* ---- the snapshot directories explored

\* The files of one date as listed: the first k frame times; the first
\* image of any size, the later ones of one size, any.
DayShapes ==
    UNION { { [i \in 1..k |-> [time |-> FrameTimes[i],
                                width |-> g[IF i = 1 THEN 1 ELSE 2].width,
                                height |-> g[IF i = 1 THEN 1 ELSE 2].height]] :
              g \in [1..2 -> Dims] } :
            k \in 0..Len(FrameTimes) }

RECURSIVE Reversed(_)
Reversed(s) == IF s = <<>> THEN <<>> ELSE Append(Reversed(Tail(s)), Head(s))

RECURSIVE ListDays(_, _, _)
ListDays(shapes, order, i) ==
    IF i > Len(order) THEN <<>>
    ELSE [j \in 1..Len(shapes[order[i]]) |->
            [date |-> order[i], time |-> shapes[order[i]][j].time,
             width |-> shapes[order[i]][j].width,
             height |-> shapes[order[i]][j].height]]
         \o ListDays(shapes, order, i + 1)

\* fs.readdir lists the directory in no particular order: the dates in any
\* order, the whole list forwards or backwards.
Listings ==
    { IF backwards THEN Reversed(ListDays(shapes, order, 1))
      ELSE ListDays(shapes, order, 1) :
        shapes \in [1..MaxDates -> DayShapes],
        order \in Permutations(1..MaxDates),
        backwards \in BOOLEAN }

AsmInit ==
    /\ store \in Listings
    /\ asmPc = "analyze"
    /\ dailyVideos = <<>> /\ timeGroups = <<>>
    /\ dvIdx = 0 /\ tgIdx = 0
    /\ dailyArtifacts = {} /\ concatList = None /\ concatName = None
    /\ timelapses = {}
    /\ encoderRuns = {}
    /\ WalkerIdle /\ DueIdle /\ VideoIdle /\ MainIdle /\ SlotsIdle /\ SeqIdle

\* const { dailyVideos, timeGroups } = await analyzeSnapshotDistribution(...)
Analyze ==
    /\ asmPc = "analyze"
    /\ LET a == analyzeSnapshotDistribution(store)
       IN  /\ dailyVideos' = a.dailyVideos
           /\ timeGroups' = a.timeGroups
           /\ asmPc' = IF Len(a.dailyVideos) > 0 THEN "daily" ELSE "groups"
    /\ dvIdx' = 1 /\ tgIdx' = 1
    /\ UNCHANGED <<store, dailyArtifacts, concatList, concatName, timelapses>>
    /\ UNCHANGED encoderRuns
    /\ UNCHANGED <<walkerVars, dueVars, videoVars, mainVars, slotVars, seqVars>>

\* generateDailyVideo, ffmpeg exits with 0: <date>.mp4 is written, all the
\* snapshots of the date scaled and padded to the size of the first one.
DailyVideoEncodes ==
    /\ asmPc = "daily" /\ dvIdx <= Len(dailyVideos)
    /\ \E probed \in BOOLEAN :
          LET dv == dailyVideos[dvIdx]
              r == DailyResolution(dv.snapshots, probed)
          IN  dailyArtifacts' = dailyArtifacts \cup
                {[date |-> dv.date,
                  frames |-> [i \in 1..Len(dv.snapshots) |-> NameOf(dv.snapshots[i])],
                  width |-> r.width, height |-> r.height]}
    /\ dvIdx' = dvIdx + 1
    /\ UNCHANGED <<store, asmPc, dailyVideos, timeGroups, tgIdx, concatList,
                   concatName, timelapses>>
    /\ encoderRuns' = encoderRuns \cup {[kind |-> "daily", key |-> dailyVideos[dvIdx].date, ok |-> TRUE]}
    /\ UNCHANGED <<walkerVars, dueVars, videoVars, mainVars, slotVars, seqVars>>

\* generateDailyVideo, ffmpeg exits with another code: the promise rejects,
\* the await in main's for loop throws and main's catch takes over.
DailyVideoFails ==
    /\ asmPc = "daily" /\ dvIdx <= Len(dailyVideos)
    /\ asmPc' = "failed"
    /\ UNCHANGED <<store, dailyVideos, timeGroups, dvIdx, tgIdx, dailyArtifacts,
                   concatList, concatName, timelapses>>
    /\ encoderRuns' = encoderRuns \cup {[kind |-> "daily", key |-> dailyVideos[dvIdx].date, ok |-> FALSE]}
    /\ UNCHANGED <<walkerVars, dueVars, videoVars, mainVars, slotVars, seqVars>>

\* concatenateDailyVideos(timelapseDir, dailyVideos), ffmpeg exits with 0.
ConcatenateSucceeds ==
    /\ asmPc = "daily" /\ dvIdx > Len(dailyVideos)
    /\ concatList' = Some(ConcatDates(dailyVideos))
    /\ concatName' = Some(ConcatName(dailyVideos))
    /\ asmPc' = "groups"
    /\ UNCHANGED <<store, dailyVideos, timeGroups, dvIdx, tgIdx, dailyArtifacts,
                   timelapses>>
    /\ encoderRuns' = encoderRuns \cup {[kind |-> "concat", key |-> 0, ok |-> TRUE]}
    /\ UNCHANGED <<walkerVars, dueVars, videoVars, mainVars, slotVars, seqVars>>

\* concatenateDailyVideos, ffmpeg exits with another code: rejects.
ConcatenateFails ==
    /\ asmPc = "daily" /\ dvIdx > Len(dailyVideos)
    /\ concatList' = Some(ConcatDates(dailyVideos))
    /\ concatName' = Some(ConcatName(dailyVideos))
    /\ asmPc' = "failed"
    /\ UNCHANGED <<store, dailyVideos, timeGroups, dvIdx, tgIdx, dailyArtifacts,
                   timelapses>>
    /\ encoderRuns' = encoderRuns \cup {[kind |-> "concat", key |-> 0, ok |-> FALSE]}
    /\ UNCHANGED <<walkerVars, dueVars, videoVars, mainVars, slotVars, seqVars>>

\* generateTimelapse(camera, config, hour, minute), ffmpeg exits with 0.
TimelapseEncodes ==
    /\ asmPc = "groups" /\ tgIdx <= Len(timeGroups)
    /\ LET g == timeGroups[tgIdx]
           snapshots == TimelapseSnapshots(store, g.hour, g.minute)
       IN  \E readable \in SUBSET (1..Len(snapshots)) :
              LET r == TimelapseResolution(ProbedFrom(snapshots, readable, 1))
              IN  timelapses' = timelapses \cup
                    {[time |-> g.time,
                      frames |-> [i \in 1..Len(snapshots) |-> NameOf(snapshots[i])],
                      allProbed |-> (readable = 1..Len(snapshots)),
                      width |-> r.width, height |-> r.height,
                      firstDate |-> snapshots[1].date,
                      lastDate |-> snapshots[Len(snapshots)].date]}
    /\ tgIdx' = tgIdx + 1
    /\ UNCHANGED <<store, asmPc, dailyVideos, timeGroups, dvIdx, dailyArtifacts,
                   concatList, concatName>>
    /\ encoderRuns' = encoderRuns \cup {[kind |-> "timelapse", key |-> timeGroups[tgIdx].time, ok |-> TRUE]}
    /\ UNCHANGED <<walkerVars, dueVars, videoVars, mainVars, slotVars, seqVars>>

\* generateTimelapse, ffmpeg exits with another code: rejects.
TimelapseFails ==
    /\ asmPc = "groups" /\ tgIdx <= Len(timeGroups)
    /\ asmPc' = "failed"
    /\ UNCHANGED <<store, dailyVideos, timeGroups, dvIdx, tgIdx, dailyArtifacts,
                   concatList, concatName, timelapses>>
    /\ encoderRuns' = encoderRuns \cup {[kind |-> "timelapse", key |-> timeGroups[tgIdx].time, ok |-> FALSE]}
    /\ UNCHANGED <<walkerVars, dueVars, videoVars, mainVars, slotVars, seqVars>>

\* Both loops are over: results.push({ success: true }).
AssemblyCompletes ==
    /\ asmPc = "groups" /\ tgIdx > Len(timeGroups)
    /\ asmPc' = "done"
    /\ UNCHANGED <<store, dailyVideos, timeGroups, dvIdx, tgIdx, dailyArtifacts,
                   concatList, concatName, timelapses>>
    /\ UNCHANGED encoderRuns
    /\ UNCHANGED <<walkerVars, dueVars, videoVars, mainVars, slotVars, seqVars>>

AsmNext ==
    \/ Analyze
    \/ DailyVideoEncodes
    \/ DailyVideoFails
    \/ ConcatenateSucceeds
    \/ ConcatenateFails
    \/ TimelapseEncodes
    \/ TimelapseFails
    \/ AssemblyCompletes

SpecAssemble == AsmInit /\ [][AsmNext]_vars

(***************************************************************************)
(* Video assembly: isolation, order, classification and resolution         *)
(***************************************************************************)

AssemblyOver == asmPc \in {"done", "failed"}
EncoderFailed(kinds) == \E r \in encoderRuns : r.kind \in kinds /\ ~r.ok
WasRun(kind, key) == \E r \in encoderRuns : r.kind = kind /\ r.key = key

\* The dates of dailyVideos that have an artifact, in the order of dailyVideos.
DatesWithArtifact ==
    SelectSeq(ConcatDates(dailyVideos),
              LAMBDA d : \E a \in dailyArtifacts : a.date = d)

\* C11: when the encoder fails for one date's daily video or one time
\* group's timelapse, the builds of the other dates and groups of the camera
\* are still executed, and the concatenation still runs, over the dates that
\* have an artifact.
C11_EncodingFailureIsolated ==
    (AssemblyOver /\ EncoderFailed({"daily", "timelapse"}))
    => /\ \A i \in 1..Len(dailyVideos) : WasRun("daily", dailyVideos[i].date)
       /\ \A i \in 1..Len(timeGroups) : WasRun("timelapse", timeGroups[i].time)
       /\ (DatesWithArtifact # <<>>
              => WasRun("concat", 0) /\ concatList = Some(DatesWithArtifact))

\* C12: the daily artifacts handed to the stream-copy concatenation are in
\* strictly ascending date order and the output is named from the earliest
\* to the latest date, however the directory lists its files.
C12_ConcatenationAscending ==
    concatList # None
    => LET dates == concatList[1]
       IN  /\ \A i \in 1..(Len(dates) - 1) : dates[i] < dates[i + 1]
           /\ \A i \in 1..Len(dates) :
                 concatName[1][1] <= dates[i] /\ dates[i] <= concatName[1][2]

(***************************************************************************)
(* Backfill walker: what a pass returns, configuration errors, frame keys  *)
(***************************************************************************)

\* The HHMM values of the slots a finished pass examined: those of the days
\* whose slot loop ran.
ExaminedTimes ==
    LET last == IF stopReason \in {"maxDays", "hardLimit"} THEN dayOffset - 1
                ELSE dayOffset
    IN  IF SlotsThrow(config.schedule, config.location) THEN {}
        ELSE UNION { {TimeStr(ValidSlotsOf(o)[i]) : i \in 1..Len(ValidSlotsOf(o))} :
                     o \in 0..last }

\* C13: at the end of a backfill pass the returned set of time slots is
\* exactly the set of HHMM values, among the slots the walk examined, for
\* which at least one frame exists in the store; a time whose every examined
\* slot failed and was not already present is not in it.
C13_CoveredTimeSlotsHaveFrames ==
    pc = "done"
    => capturedTimeSlots = {t \in ExaminedTimes : \E f \in disk : f[2] = t}

\* C14: with a sunrise-sunset schedule and no location, a backfill pass ends
\* on the configuration error: no archive request is issued and slot
\* generation is not attempted again for further days of the walk.  Each
\* day the loop passes costs one call of generateDailySlots, so dayOffset
\* counts the calls.
C14_ConfigurationErrorFailsFast ==
    (config.schedule.mode = "sunrise-sunset" /\ LocationMissing(config.location)
        /\ pc \in {"done", "aborted"})
    => attemptCount = 0 /\ dayOffset <= 1

\* C15: the frame the walker stores or looks up for a slot is keyed by the
\* slot's local calendar date and local HHMM, so every slot generated for a
\* target day carries that day's date, in every time zone and at every time
\* of the day.
C15_FrameKeyIsLocalDateAndTime ==
    (pc = "slot" /\ slotIdx <= Len(validSlots))
    => LET slot == validSlots[slotIdx]
       IN  Filename(slot) =
              <<0 - dayOffset,
                ((slot % MinutesPerDay) \div 60) * 100 + ((slot % MinutesPerDay) % 60)>>

\* C16: with a fixed 12:00 schedule, the 12:00 frames of the last
\* ScenarioDays days, today included, already in the store and maxDays =
\* ScenarioDays, a pass run at any time of the day reports 0 captured,
\* ScenarioDays skipped, 0 failed and issues no archive request.
C16_ScenarioAllSkipped ==
    (config = ScenarioConfig /\ existingSnapshots = ScenarioStore
        /\ pc \in {"done", "aborted"})
    => /\ capturedCount = 0 /\ skippedCount = ScenarioDays /\ failedCount = 0
       /\ attemptCount = 0

(***************************************************************************)
(* Distribution analyzer and timelapse content                             *)
(***************************************************************************)

FramesOn(d) == Cardinality({i \in DOMAIN store : store[i].date = d})
InDailyVideos(d) == \E i \in DOMAIN dailyVideos : dailyVideos[i].date = d
InTimeGroups(d) ==
    \E i \in DOMAIN timeGroups :
        \E j \in DOMAIN timeGroups[i].snapshots : timeGroups[i].snapshots[j].date = d

\* C17: analyzeSnapshotDistribution puts a date into dailyVideos if and only
\* if the date has more than 2 stored frames: a date with exactly 3 frames
\* is a dailyVideos entry, a date with 1 or 2 frames contributes to
\* timeGroups only.
C17_DistributionThreshold ==
    asmPc # "analyze"
    => \A d \in 1..MaxDates :
          /\ InDailyVideos(d) <=> FramesOn(d) > 2
          /\ InTimeGroups(d) <=> FramesOn(d) \in {1, 2}

C17_Witness ==
    /\ asmPc # "analyze"
    /\ \E d \in 1..MaxDates : FramesOn(d) = 3 /\ InDailyVideos(d)
    /\ \E d \in 1..MaxDates : FramesOn(d) = 2 /\ InTimeGroups(d) /\ ~InDailyVideos(d)

\* C18: the timelapse built for a timeGroups entry contains exactly the
\* frames of that group, the frames at that time from dates with at most 2
\* frames, in ascending date order; frames of dailyVideos dates are not in it.
C18_TimelapseHoldsItsGroupOnly ==
    \A t \in timelapses :
        \E i \in DOMAIN timeGroups :
            /\ timeGroups[i].time = t.time
            /\ t.frames = [j \in DOMAIN timeGroups[i].snapshots |->
                              NameOf(timeGroups[i].snapshots[j])]
            /\ \A j \in DOMAIN t.frames : ~InDailyVideos(t.frames[j][1])

\* C19: all the daily videos built for one camera are encoded at the same
\* target width and height, whatever the sizes of the frames of each date,
\* so that the stream-copy concatenation gets inputs of one profile.
C19_UniformDailyProfile ==
    \A a \in dailyArtifacts : \A b \in dailyArtifacts :
        a.width = b.width /\ a.height = b.height

\* The size of the stored image of a frame.
StoredSize(name) ==
    LET i == CHOOSE i \in DOMAIN store : NameOf(store[i]) = name
    IN  SizeOf(store[i])

\* C20: for a time-based timelapse the target width is the maximum width and
\* the target height the maximum height observed over the frames of the
\* group, each maximum taken independently (1920x1080 and 1280x1440 give
\* 1920x1440).
C20_TimelapseResolutionIsMaxima ==
    \A t \in timelapses :
        t.allProbed
        => /\ \A j \in DOMAIN t.frames :
                 /\ StoredSize(t.frames[j]).width <= t.width
                 /\ StoredSize(t.frames[j]).height <= t.height
           /\ \E j \in DOMAIN t.frames : StoredSize(t.frames[j]).width = t.width
           /\ \E j \in DOMAIN t.frames : StoredSize(t.frames[j]).height = t.height

\* ---------------------------------------------------------------------------
\* C21  No partial frame: right after a capture attempt that failed without
\* aborting the pass, the store holds no file under the key of the slot that
\* was attempted.
C21_NoPartialFrame ==
    (pc = "slot" /\ slotIdx > 1 /\ lastOutcome \in {"notfound", "nodata", "other"})
        => Filename(validSlots[slotIdx - 1]) \notin disk

(***************************************************************************)
(* scheduling.js called on its own: generateDailySlots, getNextCaptureTime *)
(* and validateSchedule on one schedule, location, day and clock           *)
(***************************************************************************)

\* fixedTimes lists: absent or empty, one time, unsorted lists, a repeated
\* time (the setup splits the typed list on commas and keeps every entry),
\* the two ends of the day.
SlotFixedTimes ==
    { <<>>, <<<<12, 0>>>>, <<<<18, 30>>, <<9, 0>>>>,
      <<<<21, 15>>, <<9, 0>>, <<12, 0>>>>, <<<<12, 0>>, <<12, 0>>>>,
      <<<<0, 0>>, <<23, 59>>>> }

\* window: a window of one hour, a window of one instant, a window whose
\* start is after its end; the unset window is the whole day.
SlotWindows ==
    { [startHour |-> <<10, 0>>, endHour |-> <<11, 0>>],
      [startHour |-> <<10, 0>>, endHour |-> <<10, 0>>],
      [startHour |-> <<18, 0>>, endHour |-> <<6, 0>>] }

SlotSchedules ==
    {BaseSchedule, [BaseSchedule EXCEPT !.mode = "hourly"]}
    \cup { [BaseSchedule EXCEPT !.mode = "fixed-time", !.fixedTimes = f] :
              f \in SlotFixedTimes }
    \cup { [BaseSchedule EXCEPT !.mode = "interval",
                                !.interval = [shotsPerHour |-> n], !.window = w] :
              n \in -1..61, w \in SlotWindows }
    \cup { [BaseSchedule EXCEPT !.mode = "interval",
                                !.interval = [shotsPerHour |-> n]] :
              n \in {-1, 0, 1, 4, 61} }
    \cup { [BaseSchedule EXCEPT !.mode = "sunrise-sunset",
                                !.captureSunrise = f[1], !.captureSunset = f[2],
                                !.sunriseOffset = o[1], !.sunsetOffset = o[2],
                                !.interval = [shotsPerHour |-> n]] :
              f \in BOOLEAN \X BOOLEAN,
              o \in {0, 45, 840} \X {-30, 0, 300},
              n \in {0, 2, 61} }

\* location: absent, both coordinates null (the default configuration), one
\* coordinate null, a latitude of 0, both coordinates set.
SlotLocations ==
    { None, Some([lat |-> None, lon |-> None]), Some([lat |-> Some(37), lon |-> None]),
      Some([lat |-> Some(0), lon |-> Some(-122)]),
      Some([lat |-> Some(51), lon |-> Some(0)]), SomeLocation }

\* What SunCalc.getTimes answers: a spring day and a midsummer day.
SlotSuns == {DefaultSun, [sunrise |-> HM(4, 50), sunset |-> HM(21, 40)]}

\* The clock of the call, on day 0.
SlotNows == {HM(0, 10), HM(8, 0), HM(12, 0), HM(13, 0), HM(23, 0)}

SlotCalls ==
    { [schedule |-> s, location |-> l, sun |-> DefaultSun, now |-> t, day |-> d] :
          s \in {x \in SlotSchedules : x.mode # "sunrise-sunset"},
          l \in {None, SomeLocation}, t \in SlotNows, d \in {0, 1} }
    \cup
    { [schedule |-> s, location |-> l, sun |-> u, now |-> t, day |-> d] :
          s \in {x \in SlotSchedules : x.mode = "sunrise-sunset"},
          l \in SlotLocations, u \in SlotSuns, t \in SlotNows, d \in {0, 1} }

SlotsInit ==
    /\ call \in SlotCalls
    /\ ret = NoReturn
    /\ WalkerIdle /\ DueIdle /\ VideoIdle /\ MainIdle /\ AsmIdle /\ SeqIdle

\* The calls that never return: a loop that is entered and whose setMinutes
\* does not advance currentTime (60 / shotsPerHour below 1 truncates to 0) or
\* moves it backwards (shotsPerHour negative).
SlotsDiverge(schedule, sun) ==
    CASE schedule.mode = "interval" ->
            /\ IntervalStep(IF schedule.interval.shotsPerHour = 0 THEN 1
                            ELSE schedule.interval.shotsPerHour) <= 0
            /\ generateIntervalSlots(0, [shotsPerHour |-> 1], schedule.window) # <<>>
      [] schedule.mode = "sunrise-sunset" ->
            /\ schedule.interval.shotsPerHour > 0
            /\ IntervalStep(schedule.interval.shotsPerHour) <= 0
            /\ sun.sunrise + schedule.sunriseOffset < sun.sunset + schedule.sunsetOffset
      [] OTHER -> FALSE

\* generateDailySlots(day, schedule, location)
GenerateSlots ==
    /\ ret.op = "none"
    /\ IF SlotsThrow(call.schedule, call.location)
       THEN ret' = [NoReturn EXCEPT !.op = "generateDailySlots", !.threw = TRUE]
       ELSE /\ ~SlotsDiverge(call.schedule, call.sun)
            /\ ret' = [NoReturn EXCEPT
                          !.op = "generateDailySlots",
                          !.slots = generateDailySlots(call.day, call.schedule,
                                                       call.location, call.sun)]
    /\ UNCHANGED call
    /\ UNCHANGED <<walkerVars, dueVars, videoVars, mainVars, asmVars, seqVars>>

\* getNextCaptureTime(schedule, location) at the instant call.now
NextCapture ==
    /\ ret.op = "none"
    /\ IF SlotsThrow(call.schedule, call.location)
       THEN ret' = [NoReturn EXCEPT !.op = "getNextCaptureTime", !.threw = TRUE]
       ELSE /\ ~SlotsDiverge(call.schedule, call.sun)
            /\ ret' = [NoReturn EXCEPT
                          !.op = "getNextCaptureTime",
                          !.next = getNextCaptureTime(call.schedule, call.location,
                                                      call.now, call.sun)]
    /\ UNCHANGED call
    /\ UNCHANGED <<walkerVars, dueVars, videoVars, mainVars, asmVars, seqVars>>

\* validateSchedule(schedule)
Validate ==
    /\ ret.op = "none"
    /\ ret' = [NoReturn EXCEPT
                  !.op = "validateSchedule",
                  !.isValid = validateSchedule(call.schedule).isValid,
                  !.errors = validateSchedule(call.schedule).errors]
    /\ UNCHANGED call
    /\ UNCHANGED <<walkerVars, dueVars, videoVars, mainVars, asmVars, seqVars>>

SlotsNext ==
    \/ GenerateSlots
    \/ NextCapture
    \/ Validate

SpecSlots == SlotsInit /\ [][SlotsNext]_vars

\* The slots of a returned list, as a set.
Returned == {ret.slots[i] : i \in 1..Len(ret.slots)}
Ascending(s) == \A i \in 1..(Len(s) - 1) : s[i] <= s[i + 1]
StrictlyAscending(s) == \A i \in 1..(Len(s) - 1) : s[i] < s[i + 1]
Generated == ret.op = "generateDailySlots" /\ ~ret.threw

\* The window of an interval schedule in minutes of the day, with the
\* defaults "00:00" and "23:59" of the unset bounds.
WindowStart(window) ==
    IF window.startHour = None THEN HM(0, 0)
    ELSE HM(window.startHour[1], window.startHour[2])
WindowEnd(window) ==
    IF window.endHour = None THEN HM(23, 59)
    ELSE HM(window.endHour[1], window.endHour[2])

\* ---------------------------------------------------------------------------
\* C22  Interval slots: for shotsPerHour in 1..60 and a window whose start is
\* not after its end, the first slot is the window start, consecutive slots
\* are exactly 60 / shotsPerHour minutes apart (shotsPerHour times the gap is
\* 60 minutes, also when 60 is not a multiple of shotsPerHour), and no slot is
\* later than the window end.
C22_IntervalSlots ==
    (/\ Generated
     /\ call.schedule.mode = "interval"
     /\ call.schedule.interval.shotsPerHour \in 1..60
     /\ WindowStart(call.schedule.window) <= WindowEnd(call.schedule.window))
    => /\ Len(ret.slots) >= 1
       /\ ret.slots[1] = call.day * MinutesPerDay + WindowStart(call.schedule.window)
       /\ \A i \in 1..(Len(ret.slots) - 1) :
             call.schedule.interval.shotsPerHour * (ret.slots[i + 1] - ret.slots[i]) = 60
       /\ \A s \in Returned :
             s <= call.day * MinutesPerDay + WindowEnd(call.schedule.window)

\* ---------------------------------------------------------------------------
\* C23  Never zero slots: for a schedule that validateSchedule accepts (with a
\* usable location when the mode is sunrise-sunset), generateDailySlots does
\* not fail and returns at least one slot, and getNextCaptureTime does not
\* return null.
C23_NeverZeroSlots ==
    (/\ validateSchedule(call.schedule).isValid
     /\ call.schedule.mode = "sunrise-sunset" => ~LocationMissing(call.location))
    => /\ ret.op = "generateDailySlots" => (~ret.threw /\ Len(ret.slots) >= 1)
       /\ ret.op = "getNextCaptureTime" => (~ret.threw /\ ret.next # None)

\* The instants of the configured hour:minute pairs on the requested day.
ConfiguredInstants ==
    {call.day * MinutesPerDay + HM(call.schedule.fixedTimes[j][1],
                                   call.schedule.fixedTimes[j][2]) :
        j \in 1..Len(call.schedule.fixedTimes)}
DistinctTimes ==
    \A i, j \in 1..Len(call.schedule.fixedTimes) :
        i # j => call.schedule.fixedTimes[i] # call.schedule.fixedTimes[j]

\* ---------------------------------------------------------------------------
\* C24  FixedTime slots: for every fixed-time schedule, N configured times,
\* in any order, give exactly N slots on the requested day, strictly
\* ascending, each at a configured hour:minute with seconds 0.
C24_FixedTimeStrictlyAscending ==
    (Generated /\ call.schedule.mode = "fixed-time")
    => /\ Len(ret.slots) = Len(call.schedule.fixedTimes)
       /\ StrictlyAscending(ret.slots)
       /\ Returned = ConfiguredInstants

\* What generateFixedTimeSlots does return: N slots for N entries, in
\* ascending order and strictly ascending when the entries are pairwise
\* distinct; an entry that is repeated k times gives k equal slots.
C24_FixedTimeSlots ==
    (Generated /\ call.schedule.mode = "fixed-time")
    => /\ Len(ret.slots) = Len(call.schedule.fixedTimes)
       /\ Ascending(ret.slots)
       /\ DistinctTimes => StrictlyAscending(ret.slots)
       /\ Returned = ConfiguredInstants
       /\ \A t \in ConfiguredInstants :
             Cardinality({i \in 1..Len(ret.slots) : ret.slots[i] = t})
                = Cardinality({j \in 1..Len(call.schedule.fixedTimes) :
                      call.day * MinutesPerDay
                         + HM(call.schedule.fixedTimes[j][1],
                              call.schedule.fixedTimes[j][2]) = t})

\* The location is absent, or one of its coordinates is unset.
LocationUnset(location) ==
    IF location = None THEN TRUE
    ELSE location[1].lat = None \/ location[1].lon = None

\* ---------------------------------------------------------------------------
\* C25  SunriseSunset without a location: when the location is absent or a
\* coordinate of it is unset, generateDailySlots in sunrise-sunset mode fails
\* with the configuration error and returns no slot, whatever the capture
\* flags, the offsets and the interior interval are.
C25_SunriseSunsetNeedsLocation ==
    (/\ ret.op = "generateDailySlots"
     /\ call.schedule.mode = "sunrise-sunset"
     /\ LocationUnset(call.location))
    => (ret.threw /\ ret.slots = <<>>)

C25_Witness ==
    /\ ret.op = "generateDailySlots"
    /\ call.schedule.mode = "sunrise-sunset"
    /\ call.location = Some([lat |-> Some(37), lon |-> None])
    /\ ~call.schedule.captureSunrise
    /\ call.schedule.sunsetOffset = 300
    /\ call.schedule.interval.shotsPerHour = 2
    /\ ret.threw

\* The sunrise and the sunset of the requested day, shifted by their offsets.
OffsetSunrise == call.day * MinutesPerDay + call.sun.sunrise + call.schedule.sunriseOffset
OffsetSunset == call.day * MinutesPerDay + call.sun.sunset + call.schedule.sunsetOffset

\* ---------------------------------------------------------------------------
\* C26  SunriseSunset event slots: with a location and no interior interval,
\* the list holds the offset sunrise slot iff captureSunrise and the offset
\* sunset slot iff captureSunset, and nothing else, in ascending order; with
\* both flags it has exactly 2 slots, the first before the second whenever
\* the offset sunrise precedes the offset sunset.
C26_SunriseSunsetEventSlots ==
    (/\ Generated
     /\ call.schedule.mode = "sunrise-sunset"
     /\ call.schedule.interval.shotsPerHour = 0)
    => /\ (OffsetSunrise \in Returned) <=> call.schedule.captureSunrise
       /\ (OffsetSunset \in Returned) <=> call.schedule.captureSunset
       /\ Returned \subseteq {OffsetSunrise, OffsetSunset}
       /\ Len(ret.slots) = Cardinality(Returned)
       /\ Ascending(ret.slots)
       /\ (call.schedule.captureSunrise /\ call.schedule.captureSunset)
             => /\ Len(ret.slots) = 2
                /\ OffsetSunrise < OffsetSunset
                      => (ret.slots[1] = OffsetSunrise /\ ret.slots[1] < ret.slots[2])

\* Both events captured, the offset sunrise (06:30 + 14 h) after the offset
\* sunset (19:45 - 30 min): the sunset slot comes first.
C26_Witness ==
    /\ Generated
    /\ call.schedule.mode = "sunrise-sunset"
    /\ call.schedule.interval.shotsPerHour = 0
    /\ call.schedule.captureSunrise /\ call.schedule.captureSunset
    /\ call.day = 0 /\ call.sun = DefaultSun
    /\ call.schedule.sunriseOffset = 840 /\ call.schedule.sunsetOffset = -30
    /\ ret.slots = <<HM(19, 15), HM(20, 30)>>

\* The slots of the schedule on the day of the call, the day before and the
\* day after, as a set.
SlotsOfDay(d) ==
    LET slots == generateDailySlots(d, call.schedule, call.location, call.sun)
    IN  {slots[i] : i \in 1..Len(slots)}
SlotsAround == SlotsOfDay(DayOf(call.now) - 1) \cup SlotsOfDay(DayOf(call.now))
                  \cup SlotsOfDay(DayOf(call.now) + 1)

\* The smallest element of a non-empty set of instants.
Least(S) == CHOOSE s \in S : \A x \in S : s <= x

\* C27, first half: the result is the earliest of today's slots strictly
\* after now; if there is none, the earliest slot of tomorrow; null if
\* tomorrow has none either.
NextIsEarliest ==
    LET remaining == {s \in SlotsOfDay(DayOf(call.now)) : s > call.now}
        tomorrow == SlotsOfDay(DayOf(call.now) + 1)
    IN  ret.next = IF remaining # {} THEN Some(Least(remaining))
                   ELSE IF tomorrow # {} THEN Some(Least(tomorrow))
                   ELSE None

\* C27, second half: a non-null result is strictly after now and no slot of
\* the schedule lies strictly between now and the result.
NextIsNearest ==
    ret.next # None
    => /\ ret.next[1] > call.now
       /\ \A s \in SlotsAround : ~(call.now < s /\ s < ret.next[1])

\* ---------------------------------------------------------------------------
\* C27  getNextCaptureTime returns the earliest of today's slots strictly
\* after now and, if none, the earliest slot of tomorrow; every non-null
\* result is strictly after now and no slot of the schedule lies strictly
\* between now and the result.
C27_NextCaptureTime ==
    (ret.op = "getNextCaptureTime" /\ ~ret.threw)
    => (NextIsEarliest /\ NextIsNearest)

\* ---------------------------------------------------------------------------
\* C28  validateSchedule: isValid holds iff the error list is empty; the list
\* is non-empty exactly for a missing mode, a fixed-time schedule without
\* times, and an interval schedule whose shotsPerHour is missing or outside
\* 1..60; a sunrise-sunset schedule is valid, with or without a location.
C28_ValidateSchedule ==
    ret.op = "validateSchedule"
    => /\ ret.isValid <=> (ret.errors = <<>>)
       /\ (ret.errors # <<>>)
             <=> \/ call.schedule.mode = "unset"
                 \/ call.schedule.mode = "fixed-time" /\ call.schedule.fixedTimes = <<>>
                 \/ /\ call.schedule.mode = "interval"
                    /\ call.schedule.interval.shotsPerHour \notin 1..60
       /\ call.schedule.mode = "sunrise-sunset" => ret.isValid

C28_Witness ==
    /\ ret.op = "validateSchedule"
    /\ call.schedule.mode = "interval"
    /\ call.schedule.interval.shotsPerHour = 61
    /\ ret.errors = <<"shotsPerHour must be between 1 and 60">>
    /\ ~ret.isValid

\* ---------------------------------------------------------------------------
\* C29  Default policy: when the mode is unset or not one of the three known
\* modes, generateDailySlots returns exactly one slot, at 12:00:00 local time
\* of the requested day.
C29_DefaultPolicy ==
    (/\ ret.op = "generateDailySlots"
     /\ call.schedule.mode \notin {"fixed-time", "interval", "sunrise-sunset"})
    => /\ ~ret.threw
       /\ ret.slots = <<call.day * MinutesPerDay + HM(12, 0)>>

C29_Witness ==
    /\ ret.op = "generateDailySlots"
    /\ call.schedule.mode = "hourly"
    /\ call.day = 1
    /\ ret.slots = <<MinutesPerDay + HM(12, 0)>>

\* The three consecutive counters of the pass.
Consecutive == <<consecutiveFailures, consecutiveNoData, consecutiveNotFound>>

\* ---------------------------------------------------------------------------
\* C30  Counter update rule: every capture attempt (a step that raises
\* attemptCount) sets the three consecutive counters to 0 when it succeeds;
\* when it fails without aborting, it raises consecutiveFailures by 1, raises
\* consecutiveNoData by 1 if the failure is of the no-data or of the not-found
\* class and resets it to 0 otherwise, and raises consecutiveNotFound by 1 if
\* the failure is of the not-found class and resets it to 0 otherwise; a fatal
\* failure leaves the three counters as they are.
C30_CounterUpdateRule ==
    [][ attemptCount' = attemptCount + 1
        => /\ lastOutcome' = "captured" => Consecutive' = <<0, 0, 0>>
           /\ lastOutcome' \in {"notfound", "nodata", "other"}
                 => /\ consecutiveFailures' = consecutiveFailures + 1
                    /\ consecutiveNoData' =
                          IF lastOutcome' \in {"notfound", "nodata"}
                          THEN consecutiveNoData + 1 ELSE 0
                    /\ consecutiveNotFound' =
                          IF lastOutcome' = "notfound"
                          THEN consecutiveNotFound + 1 ELSE 0
           /\ lastOutcome' = "fatal" => Consecutive' = Consecutive ]_vars

\* A not-found failure after another failure of the no-data class: it has
\* raised all three counters.
C30_Witness ==
    /\ lastOutcome = "notfound"
    /\ consecutiveFailures = 2
    /\ consecutiveNoData = 2
    /\ consecutiveNotFound = 1

\* The walker is past the last slot of the day it processes.
AtEndOfDay == pc = "slot" /\ slotIdx > Len(validSlots)
\* The keys of the slots of the day being processed.
DayKeys == {Filename(validSlots[i]) : i \in 1..Len(validSlots)}

RequestIssued == attemptCount' = attemptCount + 1

\* ---------------------------------------------------------------------------
\* C32  Duplicate prevention: the walker issues no export request for a slot
\* whose frame is in the store at that moment (so it overwrites no frame),
\* and the key of a requested slot was not the key of an earlier slot of the
\* day's list (at most one request per key).
C32_DuplicatePrevention ==
    [][ RequestIssued
        => /\ Filename(validSlots[slotIdx]) \notin disk
           /\ \A j \in 1..(slotIdx - 1) :
                 Filename(validSlots[j]) # Filename(validSlots[slotIdx]) ]_vars

\* A step whose extraction writes the file of a key that is in the store: the
\* stored frame is replaced.
FrameRewritten ==
    /\ RequestIssued
    /\ lastOutcome' = "captured"
    /\ Filename(validSlots[slotIdx]) \in disk

\* ---------------------------------------------------------------------------
\* C33  No rollback: no step of a pass, whether it continues, stops, reaches
\* a bound or aborts, removes a frame from the store or replaces a stored
\* frame; the set of stored frames only grows.
C33_NoRollback ==
    [][ disk \subseteq disk' /\ ~FrameRewritten ]_vars

\* The part of C33 about presence alone.
C33_FramesStayPresent ==
    [][ disk \subseteq disk' ]_vars

(***************************************************************************)
(* capture-and-timelapse.js: main's camera loop and the slot loop of       *)
(* fetchMissingSnapshots at the grain of their awaits.  A call that is     *)
(* awaited suspends the caller until its promise settles.                  *)
(***************************************************************************)

MaxRequests == 3      \* export requests one camera's pass may issue

SeqInit ==
    /\ nCams \in 1..MaxCameras
    /\ seqPc = "loop"
    /\ seqCam = 0
    /\ busy = {}
    /\ issued = 0 /\ settled = 0 /\ outstanding = 0
    /\ WalkerIdle /\ DueIdle /\ VideoIdle /\ MainIdle /\ AsmIdle /\ SlotsIdle

\* for (let i = 0; i < cameras.length; i++) { try { await fetchMissingSnapshots(
SeqCameraStarts ==
    /\ seqPc = "loop" /\ seqCam < nCams
    /\ seqCam' = seqCam + 1
    /\ busy' = busy \cup {seqCam + 1}
    /\ issued' = 0 /\ settled' = 0
    /\ seqPc' = "walk"
    /\ UNCHANGED <<nCams, outstanding>>
    /\ UNCHANGED <<walkerVars, dueVars, videoVars, mainVars, asmVars, slotVars>>

\* fetchMissingSnapshots: process.exit(1) before the first request when the
\* password or the camera id is missing.
SeqWalkerExits ==
    /\ seqPc = "walk" /\ issued = 0
    /\ seqPc' = "exited"
    /\ UNCHANGED <<nCams, seqCam, busy, issued, settled, outstanding>>
    /\ UNCHANGED <<walkerVars, dueVars, videoVars, mainVars, asmVars, slotVars>>

ExportAwaited_FireAndForget == seqPc \in {"walk", "export"}
\* const videoBuffer = await client.exportVideo(...): the slot loop is at the
\* head of an iteration, no call of it is pending.
ExportAwaited == seqPc = "walk"

\* client.exportVideo(camera.id, slot.getTime(), 1000) is called.
SeqExportIssued ==
    /\ ExportAwaited
    /\ issued < MaxRequests
    /\ issued' = issued + 1
    /\ outstanding' = outstanding + 1
    /\ seqPc' = "export"
    /\ UNCHANGED <<nCams, seqCam, busy, settled>>
    /\ UNCHANGED <<walkerVars, dueVars, videoVars, mainVars, asmVars, slotVars>>

\* The promise of exportVideo settles: the clip, or an error.
SeqExportAnswered ==
    /\ seqPc = "export"
    /\ outstanding' = outstanding - 1
    /\ seqPc' = "attempt"
    /\ UNCHANGED <<nCams, seqCam, busy, issued, settled>>
    /\ UNCHANGED <<walkerVars, dueVars, videoVars, mainVars, asmVars, slotVars>>

\* The rest of the try block, or the catch block without a fatal message:
\* the frame is extracted and the counters are updated.
SeqAttemptCounted ==
    /\ seqPc = "attempt"
    /\ settled' = settled + 1
    /\ seqPc' = "walk"
    /\ UNCHANGED <<nCams, seqCam, busy, issued, outstanding>>
    /\ UNCHANGED <<walkerVars, dueVars, videoVars, mainVars, asmVars, slotVars>>

\* The catch block with a fatal message: throw out of fetchMissingSnapshots.
SeqAttemptThrows ==
    /\ seqPc = "attempt"
    /\ settled' = settled + 1
    /\ seqPc' = "catch"
    /\ UNCHANGED <<nCams, seqCam, busy, issued, outstanding>>
    /\ UNCHANGED <<walkerVars, dueVars, videoVars, mainVars, asmVars, slotVars>>

\* fetchMissingSnapshots returns; the assembly of the camera begins.
SeqWalkerReturns ==
    /\ seqPc = "walk"
    /\ seqPc' = "assemble"
    /\ UNCHANGED <<nCams, seqCam, busy, issued, settled, outstanding>>
    /\ UNCHANGED <<walkerVars, dueVars, videoVars, mainVars, asmVars, slotVars>>

\* The awaited assembly calls complete: results.push({success: true}).
SeqAssemblyCompletes ==
    /\ seqPc = "assemble"
    /\ busy' = busy \ {seqCam}
    /\ seqPc' = "loop"
    /\ UNCHANGED <<nCams, seqCam, issued, settled, outstanding>>
    /\ UNCHANGED <<walkerVars, dueVars, videoVars, mainVars, asmVars, slotVars>>

\* An awaited assembly call rejects.
SeqAssemblyThrows ==
    /\ seqPc = "assemble"
    /\ seqPc' = "catch"
    /\ UNCHANGED <<nCams, seqCam, busy, issued, settled, outstanding>>
    /\ UNCHANGED <<walkerVars, dueVars, videoVars, mainVars, asmVars, slotVars>>

\* catch (error) { results.push({success: false}) }: on to the next camera.
SeqCameraFailed ==
    /\ seqPc = "catch"
    /\ busy' = busy \ {seqCam}
    /\ seqPc' = "loop"
    /\ UNCHANGED <<nCams, seqCam, issued, settled, outstanding>>
    /\ UNCHANGED <<walkerVars, dueVars, videoVars, mainVars, asmVars, slotVars>>

\* The loop is over: the summary and the exit.
SeqRunEnds ==
    /\ seqPc = "loop" /\ seqCam = nCams
    /\ seqPc' = "exited"
    /\ UNCHANGED <<nCams, seqCam, busy, issued, settled, outstanding>>
    /\ UNCHANGED <<walkerVars, dueVars, videoVars, mainVars, asmVars, slotVars>>

SeqNext ==
    \/ SeqCameraStarts
    \/ SeqWalkerExits
    \/ SeqExportIssued
    \/ SeqExportAnswered
    \/ SeqAttemptCounted
    \/ SeqAttemptThrows
    \/ SeqWalkerReturns
    \/ SeqAssemblyCompletes
    \/ SeqAssemblyThrows
    \/ SeqCameraFailed
    \/ SeqRunEnds

SpecSeq == SeqInit /\ [][SeqNext]_vars

\* ---------------------------------------------------------------------------
\* C34  Sequential processing: at most one export request is outstanding at
\* any moment; a request is issued only when none is outstanding and every
\* earlier attempt of the pass has completed with its counters updated; the
\* processing of a camera starts only when no earlier camera is still being
\* processed.
C34_SequentialProcessing ==
    [][ /\ outstanding <= 1 /\ outstanding' <= 1
        /\ issued' > issued => (outstanding = 0 /\ settled = issued)
        /\ seqCam' # seqCam => (busy = {} /\ outstanding = 0) ]_vars

\* The second camera waits for the answer to its second request, its first
\* attempt being completed.
C34_Witness ==
    /\ seqCam = 2 /\ busy = {2}
    /\ issued = 2 /\ settled = 1 /\ outstanding = 1

\* The places of the analyzer's output where the stored frame f appears:
\* <<"daily", i, j>> for dailyVideos[i].snapshots[j], <<"group", i, j>> for
\* timeGroups[i].snapshots[j].
PlacesInDaily(f) ==
    UNION { {<<"daily", i, j>> : j \in {k \in DOMAIN dailyVideos[i].snapshots :
                                        dailyVideos[i].snapshots[k] = f}} :
            i \in DOMAIN dailyVideos }
PlacesInGroups(f) ==
    UNION { {<<"group", i, j>> : j \in {k \in DOMAIN timeGroups[i].snapshots :
                                        timeGroups[i].snapshots[k] = f}} :
            i \in DOMAIN timeGroups }

\* ---------------------------------------------------------------------------
\* C35  Analyzer partition: every stored frame appears at exactly one place
\* of the output of analyzeSnapshotDistribution, in the dailyVideos entry of
\* its date or in the timeGroups entry of its time of day; the frames of a
\* dailyVideos entry ascend by time of day, those of a timeGroups entry by
\* date.
C35_AnalyzerPartition ==
    asmPc # "analyze"
    => /\ \A k \in DOMAIN store :
             /\ Cardinality(PlacesInDaily(store[k]) \cup PlacesInGroups(store[k])) = 1
             /\ \A p \in PlacesInDaily(store[k]) : dailyVideos[p[2]].date = store[k].date
             /\ \A p \in PlacesInGroups(store[k]) : timeGroups[p[2]].time = store[k].time
       /\ \A i \in DOMAIN dailyVideos :
             \A j \in 1..(Len(dailyVideos[i].snapshots) - 1) :
                dailyVideos[i].snapshots[j].time < dailyVideos[i].snapshots[j + 1].time
       /\ \A i \in DOMAIN timeGroups :
             \A j \in 1..(Len(timeGroups[i].snapshots) - 1) :
                timeGroups[i].snapshots[j].date < timeGroups[i].snapshots[j + 1].date

\* A store listed backwards with a date of three frames and a date of two:
\* one dailyVideos entry and two timeGroups entries.
C35_Witness ==
    /\ asmPc # "analyze"
    /\ Len(store) = 5
    /\ store[1].date > store[Len(store)].date
    /\ Len(dailyVideos) = 1 /\ Len(timeGroups) = 2

\* The pass is over: fetchMissingSnapshots returned or threw.
PassOver == pc \in {"done", "aborted"}

\* A schedule that validateSchedule accepts and that has no slot on any day:
\* sunrise-sunset with neither event captured and no interior interval.
EmptySchedule ==
    [BaseSchedule EXCEPT !.mode = "sunrise-sunset",
                         !.captureSunrise = FALSE, !.captureSunset = FALSE]

\* The passes whose termination is checked: bounded and unbounded maxDays; a
\* schedule with slots, one whose generation throws on every day (no
\* location), one without any slot; every kind of archive; an empty store
\* and a store that holds today's frames.
TerminationConfigs ==
    { [schedule |-> s, location |-> l,
       history |-> [maxDays |-> d, stopAfterConsecutiveNoData |-> n]] :
        s \in {FixedNoon, FixedTwo, SunriseSunset, EmptySchedule},
        l \in {None, SomeLocation},
        d \in {None, Some(1)},
        n \in {None, Some(2)} }

TerminationInit ==
    /\ config \in TerminationConfigs
    /\ env \in {e \in Envs : e.tzOffset = 0 /\ e.now \in {HM(8, 0), HM(13, 0)}}
    /\ disk \in {{}, DayFiles(config, env, 0, "all")}
    /\ Explored(config, env, disk)
    /\ existingSnapshots = disk
    /\ pc = "day"
    /\ dayOffset = 0
    /\ validSlots = <<>>
    /\ slotIdx = 1
    /\ dayHadAnyData = FALSE
    /\ capturedCount = 0 /\ skippedCount = 0 /\ failedCount = 0
    /\ consecutiveNoData = 0 /\ consecutiveNotFound = 0 /\ consecutiveFailures = 0
    /\ attemptCount = 0
    /\ capturedTimeSlots = {}
    /\ daysScanned = 0
    /\ lastOutcome = "none"
    /\ stopReason = "none"
    /\ DueIdle /\ VideoIdle /\ MainIdle /\ AsmIdle /\ SlotsIdle /\ SeqIdle

\* Every step of the pass that can be taken is eventually taken: the
\* function runs on, and every awaited archive call returns.
SpecTerminates == TerminationInit /\ [][Next]_vars /\ WF_vars(Next)

C37_CounterOrdering ==
    /\ consecutiveNotFound <= consecutiveNoData
    /\ consecutiveNoData <= consecutiveFailures
    /\ consecutiveNotFound >= 3 => consecutiveFailures >= 3
    /\ (maxNoData >= 3 /\ hitConfiguredNoDataLimit) => consecutiveFailures >= 3

\* The three counters apart: an unclassified failure, then a no-data
\* failure, then a not-found failure.
C37_Witness ==
    /\ consecutiveNotFound = 1
    /\ consecutiveNoData = 2
    /\ consecutiveFailures = 3

\* ---------------------------------------------------------------------------
\* C38  Skipping leaves the counters unchanged: processing a slot whose frame
\* is already present changes none of the three consecutive counters; it
\* only raises skippedCount and marks the day as having data.  No step other
\* than a capture attempt changes the counters either, so failures separated
\* only by already-present slots or days accumulate toward the thresholds.
C38_SkipKeepsCounters ==
    [][ /\ skippedCount' = skippedCount + 1
           => /\ Consecutive' = Consecutive
              /\ dayHadAnyData'
              /\ UNCHANGED <<capturedCount, failedCount, attemptCount, disk>>
        /\ attemptCount' = attemptCount => Consecutive' = Consecutive ]_vars

\* Three failures with an already-present frame between them stop the walk:
\* nothing was captured, a slot was skipped, and the third failure reached
\* the threshold of three consecutive failures.
C38_Witness ==
    /\ pc = "done"
    /\ stopReason = "failures"
    /\ capturedCount = 0
    /\ skippedCount > 0
    /\ failedCount = 3
    /\ consecutiveFailures = 3

\* The clock has not run backwards: no file of the date is dated after now.
\* Every step keeps this, since files are dated by the clock and it only
\* advances.
ClockAhead ==
    /\ \A f \in 1..Len(frameMtime) : frameMtime[f] <= clock
    /\ videoMtime # None => videoMtime[1] <= clock

\* ---------------------------------------------------------------------------
\* C39  Cache soundness: with frames only added and the clock monotonic,
\* whenever generateDailyVideo reuses the cached artifact of a date, the
\* artifact is the output of a completed encode of exactly the frames now
\* stored for the date: never what a failed encode left, never built from
\* fewer frames.
C39_CacheSoundness ==
    [][ (GenerateCached /\ ClockAhead)
        => /\ videoContent # None
           /\ videoContent[1].complete
           /\ videoContent[1].frames = frameMtime ]_vars

(***************************************************************************)
(* utils.js: isValidLocation.  A coordinate is None when it is not a       *)
(* number.                                                                 *)
(***************************************************************************)
isValidLocation(lat, lon) ==
    IF lat = None \/ lon = None THEN FALSE
    ELSE /\ lat[1] >= -90 /\ lat[1] <= 90
         /\ lon[1] >= -180 /\ lon[1] <= 180

\* ---------------------------------------------------------------------------
\* C40  Zero coordinates are a location: for every location with lat in
\* [-90, 90] and lon in [-180, 180], lat = 0 and lon = 0 included,
\* generateDailySlots in sunrise-sunset mode does not raise the
\* location-required configuration error.
C40_ZeroCoordinates ==
    (/\ ret.op = "generateDailySlots"
     /\ call.schedule.mode = "sunrise-sunset"
     /\ call.location # None
     /\ isValidLocation(call.location[1].lat, call.location[1].lon))
    => ~ret.threw

====
